---- MODULE Spec2Model ----
(***************************************************************************)
(* A model of DIRAC's HDFSStorage plug-in                                  *)
(* (src/Resources/Storage/HDFSStorage.py): the public batch operations,    *)
(* their single-path helpers, and the remote (pydoop hdfs) and local (os)  *)
(* primitives they call.                                                   *)
(*                                                                         *)
(* Paths are sequences of names, '%s/%s' % (a, b) is Append(a, b).         *)
(* Error messages are sequences of text fragments, 'text %s' % m is        *)
(* <<text>> \o m.  A Python dict result is a record; S_OK and S_ERROR      *)
(* build the two DIRAC result shapes, and a subscript that names a missing *)
(* key raises KeyError as it does in Python.                               *)
(*                                                                         *)
(* A helper is a set-valued operator: applied to a world (remote file      *)
(* system, local file system, trace of primitive calls) it yields every    *)
(* outcome [r, exc, w] the primitives' behaviours allow: the value         *)
(* returned, the exception that escaped ("none" when it returned), and the *)
(* world it left behind.                                                   *)
(***************************************************************************)
EXTENDS Integers, Sequences, FiniteSets, TLC

\* Largest file size of the model; sizes are 0..MaxSize.
MaxSize == 2
\* Longest batch (number of paths of one call).
MaxBatch == 2

Sizes == 0..MaxSize

-----------------------------------------------------------------------------
(* Python values *)

S_OK(value) == [OK |-> TRUE, Value |-> value]
S_ERROR(message) == [OK |-> FALSE, Message |-> message]
\* The value of a function that falls off its end, or of a bare S_ERROR( .. )
\* statement that is not returned.
PyNone == [NoneType |-> TRUE]
\* res['key'] is defined: res is a dict and holds the key.
HasKey(res, key) == key \in DOMAIN res
\* An unset source of a put mapping (False, '' or None: all falsy).
NoSrc == <<>>

-----------------------------------------------------------------------------
(* File systems *)

\* The remote paths, in the order a listing returns them, and the local ones.
RPathSeq == << <<"p">>, <<"d">>, <<"d", "a">>, <<"d", "s">> >>
RPaths == { RPathSeq[i] : i \in 1..Len(RPathSeq) }
LPaths == { <<"f">>, <<"l">>, <<"l", "p">>, <<"l", "a">>, <<"l", "d">> }

Absent == [kind |-> "none", size |-> 0]
File(n) == [kind |-> "file", size |-> n]
Dir == [kind |-> "directory", size |-> 0]
Nodes == {Absent, Dir} \cup { File(n) : n \in Sizes }

IsPrefix(p, q) == Len(p) <= Len(q) /\ SubSeq(q, 1, Len(p)) = p
Parent(p) == SubSeq(p, 1, Len(p) - 1)
\* Every entry lies in a directory.
ValidFs(fs) ==
  \A p \in DOMAIN fs :
    (fs[p].kind # "none" /\ Parent(p) \in DOMAIN fs) => fs[Parent(p)].kind = "directory"

Log(w, prim, path, out) ==
  [w EXCEPT !.trace = Append(@, [prim |-> prim, path |-> path, out |-> out])]

\* Outcomes of a helper.
Ok(r, w) == [r |-> r, exc |-> "none", w |-> w]
Raise(e, w) == [r |-> PyNone, exc |-> e, w |-> w]
\* Sequencing of two calls with no try around the first: an exception of the
\* first call escapes, its value is handed on otherwise.
Then(S, F(_, _)) ==
  UNION { IF e.exc # "none" THEN {e} ELSE F(e.r, e.w) : e \in S }

-----------------------------------------------------------------------------
(* Remote primitives (pydoop.hdfs).  Each yields every outcome the remote  *)
(* system may produce for the call: out = "ok" when it returns val, the    *)
(* exception it raises otherwise ("NoSuchFile" is an IOError whose text    *)
(* holds 'No such file', "IOError" any other IOError, "Exception" an       *)
(* exception that is no IOError).                                          *)

Present(fs, p) == fs[p].kind # "none"
Prim(out, val, w) == [out |-> out, val |-> val, w |-> w]
\* The text of a raised exception, str( e ).
ExcText(out) == IF out = "NoSuchFile" THEN <<"No such file">> ELSE <<out>>
IsIOError(out) == out \in {"NoSuchFile", "IOError", "IOErrorPartial"}

\* hdfs.path.exists( path )
hdfsPathExists(w, path) ==
  { Prim("ok", Present(w.remote, path), Log(w, "exists", path, "ok")),
    Prim("Exception", FALSE, Log(w, "exists", path, "Exception")) }

\* hdfs.path.isfile( path ): false for a directory and for a missing path,
\* for which an IOError 'No such file' is the other behaviour the code
\* provides for.
hdfsPathIsfile(w, path) ==
  { Prim("ok", w.remote[path].kind = "file", Log(w, "isfile", path, "ok")) }
  \cup { Prim(o, FALSE, Log(w, "isfile", path, o)) : o \in {"IOError", "Exception"} }
  \cup IF Present(w.remote, path) THEN {}
       ELSE { Prim("NoSuchFile", FALSE, Log(w, "isfile", path, "NoSuchFile")) }

\* One record of a listing.
Entry(fs, q) == [name |-> q, kind |-> fs[q].kind, size |-> fs[q].size]
\* hdfs.lsl( path, recursive ): a file lists as itself, a directory as its
\* children (its whole subtree when recursive), a missing path raises.
Listed(fs, path, recursive) ==
  IF fs[path].kind = "file" THEN <<Entry(fs, path)>>
  ELSE LET In(q) == /\ Present(fs, q) /\ q # path /\ IsPrefix(path, q)
                    /\ (recursive \/ Len(q) = Len(path) + 1)
           Pick[i \in 0..Len(RPathSeq)] ==
             IF i = 0 THEN <<>>
             ELSE IF In(RPathSeq[i]) THEN Append(Pick[i - 1], Entry(fs, RPathSeq[i]))
                  ELSE Pick[i - 1]
       IN Pick[Len(RPathSeq)]
hdfsLsl(w, path, recursive) ==
  (IF Present(w.remote, path)
     THEN { Prim("ok", Listed(w.remote, path, recursive), Log(w, "lsl", path, "ok")) }
     ELSE { Prim("NoSuchFile", <<>>, Log(w, "lsl", path, "NoSuchFile")) })
  \cup { Prim(o, <<>>, Log(w, "lsl", path, o)) : o \in {"IOError", "Exception"} }

\* The file system without path and everything below it.
Removed(fs, path) == [q \in DOMAIN fs |-> IF IsPrefix(path, q) THEN Absent ELSE fs[q]]
\* hdfs.rmr( path ): removes the whole subtree, or raises and removes nothing.
hdfsRmr(w, path) ==
  (IF Present(w.remote, path)
     THEN { Prim("ok", TRUE, Log([w EXCEPT !.remote = Removed(@, path)], "rmr", path, "ok")) }
     ELSE { Prim("NoSuchFile", FALSE, Log(w, "rmr", path, "NoSuchFile")) })
  \cup { Prim(o, FALSE, Log(w, "rmr", path, o)) : o \in {"IOError", "Exception"} }

\* The file system with a file of size n at path, its missing parent
\* directories created.
Created(fs, path, n) ==
  [q \in DOMAIN fs |-> IF q = path THEN File(n)
                        ELSE IF IsPrefix(q, path) /\ ~Present(fs, q) THEN Dir
                        ELSE fs[q]]
\* A file can be created at path: nothing is there and no ancestor is a file.
CanCreate(fs, path) ==
  /\ ~Present(fs, path)
  /\ \A q \in DOMAIN fs : (IsPrefix(q, path) /\ q # path) => fs[q].kind # "file"
\* hdfs.put( src_file, dest_url ) of a local file of size n.  "ok": the copy
\* arrived; "short": the call returned and the remote file has another size;
\* "IOError": it raised and left nothing; "IOErrorPartial": it raised and left
\* a shorter file; "Exception": it raised some other exception.
hdfsPut(w, n, dest) ==
  (IF CanCreate(w.remote, dest)
     THEN { Prim("ok", TRUE, Log([w EXCEPT !.remote = Created(@, dest, n)], "put", dest, "ok")) }
          \cup { Prim("ok", TRUE, Log([w EXCEPT !.remote = Created(@, dest, m)], "put", dest, "short"))
                 : m \in Sizes \ {n} }
          \cup { Prim("IOErrorPartial", FALSE,
                      Log([w EXCEPT !.remote = Created(@, dest, m)], "put", dest, "IOErrorPartial"))
                 : m \in { k \in Sizes : k < n } }
     ELSE {})
  \cup { Prim(o, FALSE, Log(w, "put", dest, o)) : o \in {"IOError", "Exception"} }

-----------------------------------------------------------------------------
(* Local primitives (os, os.path, DIRAC's getSize) on the local file system *)

\* A path outside the modelled local tree holds nothing.
LNode(fs, p) == IF p \in DOMAIN fs THEN fs[p] ELSE Absent
osPathExists(fs, p) == LNode(fs, p).kind # "none"
osPathIsfile(fs, p) == LNode(fs, p).kind = "file"
osPathIsdir(fs, p) == LNode(fs, p).kind = "directory"
\* getSize( fileName ): the size, -1 when it cannot be read.
getSize(fs, p) == IF osPathExists(fs, p) THEN LNode(fs, p).size ELSE -1
\* os.path.basename( path )
Basename(p) == p[Len(p)]

-----------------------------------------------------------------------------
(* Single-path helpers for files *)

\* try / except over the outcomes of one primitive call.
Try(S, F(_)) == UNION { F(e) : e \in S }
\* Truth value of what __existsHelper returns: a bool, or a (non-empty) dict.
Truthy(r) == IF HasKey(r, "bool") THEN r.bool ELSE TRUE

singleExists(w, path) ==
  Try(hdfsPathExists(w, path), LAMBDA e :
    IF e.out = "ok" THEN { Ok(S_OK(e.val), e.w) }
    ELSE { Ok(S_ERROR(<<"__singleExists: error while checking for existence">>
                      \o ExcText(e.out)), e.w) })

existsHelper(w, path) ==
  Then(singleExists(w, path), LAMBDA res, w1 :
    IF res.OK THEN { Ok([bool |-> res.Value], w1) } ELSE { Ok(res, w1) })

isSingleFile(w, path) ==
  Try(hdfsPathIsfile(w, path), LAMBDA e :
    CASE e.out = "ok" -> { Ok(S_OK(e.val), e.w) }
      [] e.out = "NoSuchFile" -> { Ok(PyNone, e.w) }
      [] e.out = "IOError" ->
           { Ok(S_ERROR(<<"__isSingleFile: IOError while retrieving path properties">>
                        \o ExcText(e.out)), e.w) }
      [] OTHER ->
           { Ok(S_ERROR(<<"__isSingleFile: Exception caught while retrieving path properties">>
                        \o ExcText(e.out)), e.w) })

\* __removeSingleFile without the check of lines 430-440.  C35 does not hold
\* of it.
removeSingleFileUnchecked(w, path) ==
  Try(hdfsRmr(w, path), LAMBDA e :
    IF e.out = "ok" THEN { Ok(S_OK(TRUE), e.w) }
    ELSE { Ok(S_ERROR(<<"__removeSingleFile: Exception occured while trying to remove a file">>
                      \o ExcText(e.out)), e.w) })

removeSingleFile(w, path) ==
  Then(isSingleFile(w, path), LAMBDA res, w1 :
    IF ~HasKey(res, "OK") THEN { Raise("TypeError", w1) }
    ELSE IF ~res.OK THEN
      { Ok(S_ERROR(<<"__removeSingleFile: Failed to check if path is file or not">>
                   \o res.Message), w1) }
    ELSE IF ~res.Value THEN
      { Ok(S_ERROR(<<"__removeSingleFile: path is not a file, aborting the operation.">>), w1) }
    ELSE Try(hdfsRmr(w1, path), LAMBDA e :
      CASE e.out = "ok" -> { Ok(S_OK(TRUE), e.w) }
        [] IsIOError(e.out) ->
             Then(existsHelper(e.w, path), LAMBDA r2, w2 :
               IF ~Truthy(r2) THEN { Ok(S_OK(TRUE), w2) }
               ELSE { Ok(S_ERROR(<<"__removeSingleFile: IOError occured while trying to remove a file">>
                                 \o ExcText(e.out)), w2) })
        [] OTHER ->
             { Ok(S_ERROR(<<"__removeSingleFile: Exception occured while trying to remove a file">>
                          \o ExcText(e.out)), e.w) }))

getSingeFileSize(w, path) ==
  Then(isSingleFile(w, path), LAMBDA res, w1 :
    IF ~HasKey(res, "OK") THEN { Raise("TypeError", w1) }
    ELSE IF ~res.OK THEN { Ok(res, w1) }
    ELSE IF ~res.Value THEN
      { Ok(S_ERROR(<<"__getSingleFileSize: Path is not a file.">>), w1) }
    ELSE Try(hdfsLsl(w1, path, FALSE), LAMBDA e :
      IF e.out = "ok" /\ Len(e.val) > 0 THEN { Ok(S_OK(e.val[1].size), e.w) }
      ELSE { Ok(S_ERROR(<<"__getSingleFileSize: Failed to determine file size">>
                        \o (IF e.out = "ok" THEN <<"IndexError">> ELSE ExcText(e.out))),
                e.w) }))

\* remoteSize of __putSingleFile: a local name that is bound only on one path.
Unbound == [bound |-> FALSE]
Bound(v) == [bound |-> TRUE, v |-> v]

\* Lines 376-388: remove the destination and report.
putCleanup(w, dest_url, sourceSize, remoteSize) ==
  Then(removeSingleFile(w, dest_url), LAMBDA res, w1 :
    IF ~res.OK THEN
      { Ok(S_ERROR(<<"__putSingleFile: Failed to remove destination file">> \o res.Message), w1) }
    ELSE IF ~remoteSize.bound THEN { Raise("UnboundLocalError", w1) }
    ELSE { Ok(S_ERROR(<<"__putSingleFile: Source and destination file sizes do not match",
                        ToString(sourceSize), ToString(remoteSize.v), "Removed destination file">>),
              w1) })

\* Lines 361-374 with the comparison of line 367 left out: whatever size the
\* destination has, the upload is reported with the size of the source.  C13
\* does not hold of it.
putVerifyAnySize(w, dest_url, sourceSize) ==
  Then(getSingeFileSize(w, dest_url), LAMBDA res, w1 :
    IF res.OK THEN { Ok(S_OK(sourceSize), w1) }
    ELSE putCleanup(w1, dest_url, sourceSize, Unbound))

\* Lines 361-374: the post transfer check after a copy that raised nothing.
putVerify(w, dest_url, sourceSize) ==
  Then(getSingeFileSize(w, dest_url), LAMBDA res, w1 :
    IF res.OK /\ sourceSize = res.Value THEN { Ok(S_OK(sourceSize), w1) }
    \* self.log.error( errStr, res['Message'] )
    ELSE IF ~HasKey(res, "Message") THEN { Raise("KeyError", w1) }
    ELSE putCleanup(w1, dest_url, sourceSize, Unbound))

\* Lines 352-359: the copy.
putCopy(w, src_file, dest_url, sourceSize) ==
  Try(hdfsPut(w, sourceSize, dest_url), LAMBDA e :
    CASE e.out = "ok" -> putVerify(e.w, dest_url, sourceSize)
      [] IsIOError(e.out) -> putCleanup(e.w, dest_url, sourceSize, Unbound)
      [] OTHER -> { Raise(e.out, e.w) })

\* __putSingleFile without lines 337-350: the copy is called on whatever is at
\* the destination.  C9 does not hold of it.
putSingleFileNoRemoval(w, src_file, dest_url) ==
  IF ~osPathExists(w.local, src_file) \/ ~osPathIsfile(w.local, src_file) THEN
    { Ok(S_ERROR(<<"__putSingleFile: The local source file does not exist or is not a file">>), w) }
  ELSE LET sourceSize == getSize(w.local, src_file) IN
    IF sourceSize = -1 THEN
      { Ok(S_ERROR(<<"__putSingleFile: Failed to get file size.">>), w) }
    ELSE IF sourceSize = 0 THEN
      { Ok(S_ERROR(<<"__putSingleFile: Source size is zero.">>), w) }
    ELSE putCopy(w, src_file, dest_url, sourceSize)

\* __putSingleFile without lines 332-335: an empty source goes on to the
\* storage.  C10 does not hold of it.
putSingleFileAnySize(w, src_file, dest_url) ==
  IF ~osPathExists(w.local, src_file) \/ ~osPathIsfile(w.local, src_file) THEN
    { Ok(S_ERROR(<<"__putSingleFile: The local source file does not exist or is not a file">>), w) }
  ELSE LET sourceSize == getSize(w.local, src_file) IN
    IF sourceSize = -1 THEN
      { Ok(S_ERROR(<<"__putSingleFile: Failed to get file size.">>), w) }
    ELSE Then(singleExists(w, dest_url), LAMBDA res, w1 :
      IF ~res.OK THEN
        { Ok(S_ERROR(<<"__putSingleFile: Error while determining existence of file on storage.">>),
             w1) }
      ELSE IF res.Value THEN
        Then(removeSingleFile(w1, dest_url), LAMBDA r2, w2 :
          IF ~r2.OK THEN { Ok(r2, w2) }
          ELSE putCopy(w2, src_file, dest_url, sourceSize))
      ELSE putCopy(w1, src_file, dest_url, sourceSize))

\* __putSingleFile with lines 348-350 left out: a removal that failed does not end
\* the upload, the copy is called next.  C37 does not hold of it.
putSingleFileIgnoringRemoval(w, src_file, dest_url) ==
  IF ~osPathExists(w.local, src_file) \/ ~osPathIsfile(w.local, src_file) THEN
    { Ok(S_ERROR(<<"__putSingleFile: The local source file does not exist or is not a file">>), w) }
  ELSE LET sourceSize == getSize(w.local, src_file) IN
    IF sourceSize = -1 THEN
      { Ok(S_ERROR(<<"__putSingleFile: Failed to get file size.">>), w) }
    ELSE IF sourceSize = 0 THEN
      { Ok(S_ERROR(<<"__putSingleFile: Source size is zero.">>), w) }
    ELSE Then(singleExists(w, dest_url), LAMBDA res, w1 :
      IF ~res.OK THEN
        { Ok(S_ERROR(<<"__putSingleFile: Error while determining existence of file on storage.">>),
             w1) }
      ELSE IF res.Value THEN
        Then(removeSingleFile(w1, dest_url), LAMBDA r2, w2 :
          putCopy(w2, src_file, dest_url, sourceSize))
      ELSE putCopy(w1, src_file, dest_url, sourceSize))

putSingleFile(w, src_file, dest_url) ==
  IF ~osPathExists(w.local, src_file) \/ ~osPathIsfile(w.local, src_file) THEN
    { Ok(S_ERROR(<<"__putSingleFile: The local source file does not exist or is not a file">>), w) }
  ELSE LET sourceSize == getSize(w.local, src_file) IN
    IF sourceSize = -1 THEN
      { Ok(S_ERROR(<<"__putSingleFile: Failed to get file size.">>), w) }
    ELSE IF sourceSize = 0 THEN
      { Ok(S_ERROR(<<"__putSingleFile: Source size is zero.">>), w) }
    ELSE Then(singleExists(w, dest_url), LAMBDA res, w1 :
      IF ~res.OK THEN
        { Ok(S_ERROR(<<"__putSingleFile: Error while determining existence of file on storage.">>),
             w1) }
      ELSE IF res.Value THEN
        Then(removeSingleFile(w1, dest_url), LAMBDA r2, w2 :
          IF ~r2.OK THEN { Ok(r2, w2) }
          ELSE putCopy(w2, src_file, dest_url, sourceSize))
      ELSE putCopy(w1, src_file, dest_url, sourceSize))

-----------------------------------------------------------------------------
(* Download of a single file *)

\* Local file system with a file of size n at path / without path.
LCreated(fs, path, n) == [fs EXCEPT ![path] = File(n)]
LRemoved(fs, path) == [q \in DOMAIN fs |-> IF IsPrefix(path, q) THEN Absent ELSE fs[q]]
\* A local file can be written at path: its directory exists, no directory is
\* in its place.
LCanCreate(fs, path) ==
  /\ path \in DOMAIN fs
  /\ fs[path].kind # "directory"
  /\ osPathIsdir(fs, Parent(path))

\* hdfs.cp( src_url, 'file://' + dest_file ) of a remote file of size n.
\* "CannotOpen" is an IOError whose text holds 'Cannot open file'.
hdfsCp(w, src_url, dest_file) ==
  LET n == w.remote[src_url].size IN
  (IF w.remote[src_url].kind = "file" /\ LCanCreate(w.local, dest_file)
     THEN { Prim("ok", TRUE, Log([w EXCEPT !.local = LCreated(@, dest_file, n)], "cp", src_url, "ok")) }
          \cup { Prim("ok", TRUE,
                      Log([w EXCEPT !.local = LCreated(@, dest_file, m)], "cp", src_url, "short"))
                 : m \in Sizes \ {n} }
          \cup { Prim("IOErrorPartial", FALSE,
                      Log([w EXCEPT !.local = LCreated(@, dest_file, m)], "cp", src_url, "IOErrorPartial"))
                 : m \in { k \in Sizes : k < n } }
     ELSE { Prim("CannotOpen", FALSE, Log(w, "cp", src_url, "CannotOpen")) })
  \cup { Prim(o, FALSE, Log(w, "cp", src_url, o)) : o \in {"IOError", "Exception"} }

\* os.remove( path ): raises OSError on a directory.
osRemove(w, path) ==
  IF osPathIsfile(w.local, path)
    THEN { Ok(PyNone, [w EXCEPT !.local = LRemoved(@, path)]) }
    ELSE { Raise("OSError", w) }

\* Lines 269-276 without the removal of line 275: the short copy stays.  C11
\* does not hold of it.
getVerifyKeepingCopy(w, dest_file, remoteSize) ==
  LET destSize == getSize(w.local, dest_file) IN
  IF destSize = remoteSize THEN { Ok(S_OK(remoteSize), w) }
  ELSE { Ok(S_ERROR(<<"__getSingleFile: File sizes don't match", ToString(remoteSize),
                      ToString(destSize), "Something went wrong, removing local file">>), w) }

\* Lines 269-276: the size check after the copy.
getVerify(w, dest_file, remoteSize) ==
  LET destSize == getSize(w.local, dest_file) IN
  IF destSize = remoteSize THEN { Ok(S_OK(remoteSize), w) }
  ELSE LET errStr == <<"__getSingleFile: File sizes don't match", ToString(remoteSize),
                       ToString(destSize), "Something went wrong, removing local file">> IN
    IF osPathExists(w.local, dest_file)
      THEN Then(osRemove(w, dest_file), LAMBDA r, w1 : { Ok(S_ERROR(errStr), w1) })
      ELSE { Ok(S_ERROR(errStr), w) }

\* Lines 240-267: the remote size, then the copy.
getCopy(w, src_url, dest_file) ==
  Then(getSingeFileSize(w, src_url), LAMBDA res, w1 :
    IF ~res.OK THEN
      { Ok(S_ERROR(<<"__getSingleFile: Error while determinig file size">> \o res.Message), w1) }
    ELSE Try(hdfsCp(w1, src_url, dest_file), LAMBDA e :
      CASE e.out = "ok" -> getVerify(e.w, dest_file, res.Value)
        [] e.out = "CannotOpen" ->
             { Ok(S_ERROR(<<"__getSingleFile: No access to create directory/file in destination.">>),
                  e.w) }
        [] IsIOError(e.out) ->
             { Ok(S_ERROR(<<"__getSingleFile: IOError while trying to download file">>
                          \o ExcText(e.out)), e.w) }
        [] OTHER ->
             { Ok(S_ERROR(<<"__getSingleFile: error while downloading file">>
                          \o ExcText(e.out)), e.w) }))

\* dest_file is [str |-> path], or [tuple |-> .. ] for the pair built on line 213,
\* which os.path.exists refuses.
getSingleFile(w, src_url, dest_file) ==
  IF ~HasKey(dest_file, "str") THEN { Raise("TypeError", w) }
  ELSE IF osPathExists(w.local, dest_file.str)
    THEN Then(osRemove(w, dest_file.str), LAMBDA r, w1 : getCopy(w1, src_url, dest_file.str))
    ELSE getCopy(w, src_url, dest_file.str)

-----------------------------------------------------------------------------
(* Metadata and directory helpers *)

\* Python dicts with path keys, in the model: functions; d[k] = v is Put.
EmptyDict == <<>>
Put(d, k, v) == (k :> v) @@ d

\* __convertMetadataDict( stats ): every caller passes one record of a listing,
\* a dict keyed by field names, and the first statement subscripts it with 0.
convertMetadataDict(stats) ==
  IF ~HasKey(stats, "0") THEN [exc |-> "KeyError", File |-> FALSE, Directory |-> FALSE, Size |-> 0]
  ELSE [exc |-> "none", File |-> stats.kind = "file", Directory |-> stats.kind = "directory",
        Size |-> stats.size]

isSingleDirectory(w, path) ==
  Try(hdfsLsl(w, path, FALSE), LAMBDA e :
    CASE e.out = "ok" ->
           IF Len(e.val) = 0
             THEN { Ok(S_ERROR(<<"__isSingleDirectory: Exception caught while retrieving path properties",
                                 "IndexError">>), e.w) }
             ELSE { Ok(S_OK(e.val[1].kind = "directory"), e.w) }
      [] e.out = "NoSuchFile" -> { Ok(PyNone, e.w) }
      [] e.out = "IOError" ->
           { Ok(S_ERROR(<<"__isSingleDirectory: IOError while retrieving path properties">>
                        \o ExcText(e.out)), e.w) }
      [] OTHER ->
           { Ok(S_ERROR(<<"__isSingleDirectory: Exception caught while retrieving path properties">>
                        \o ExcText(e.out)), e.w) })

getSingleMetadata(w, path) ==
  Try(hdfsLsl(w, path, FALSE), LAMBDA e :
    CASE e.out = "ok" ->
           IF Len(e.val) = 0 THEN { Raise("IndexError", e.w) }
           ELSE LET metadataDict == convertMetadataDict(e.val[1]) IN
             IF metadataDict.exc # "none" THEN { Raise(metadataDict.exc, e.w) }
             ELSE { Ok(S_OK(metadataDict), e.w) }
      [] IsIOError(e.out) ->
           { Ok(S_ERROR(<<"__getSingleMetadata: Error while reading metadata">>
                        \o ExcText(e.out)), e.w) }
      [] OTHER -> { Raise(e.out, e.w) })

getSingleDirectoryMetadata(w, path) ==
  Then(getSingleMetadata(w, path), LAMBDA res, w1 :
    IF ~res.OK THEN { Ok(res, w1) }
    ELSE IF ~res.Value.Directory THEN
      { Ok(S_ERROR(<<"__getSingleDirectoryMetadata: Provided path is not a directory.">>), w1) }
    ELSE { Ok(S_OK(res.Value), w1) })

\* Lines 1154-1167: the loop over the listing, from its i-th record on.
RECURSIVE listEntries(_, _, _, _, _)
listEntries(w, listing, i, files, subDirs) ==
  IF i > Len(listing) THEN { Ok(S_OK([SubDirs |-> subDirs, Files |-> files]), w) }
  ELSE LET entry == listing[i]
           metadataDict == convertMetadataDict(entry) IN
    IF metadataDict.exc # "none" THEN { Raise(metadataDict.exc, w) }
    ELSE IF metadataDict.Directory
      THEN listEntries(w, listing, i + 1, files, Put(subDirs, entry.name, metadataDict))
    ELSE IF metadataDict.File
      THEN listEntries(w, listing, i + 1, Put(files, entry.name, metadataDict), subDirs)
    \* self.log.debug( ".. %s" ) % entry['name']
    ELSE { Raise("TypeError", w) }

listSingleDirectory(w, path, recursive) ==
  Try(hdfsLsl(w, path, recursive), LAMBDA e :
    CASE e.out = "ok" -> listEntries(e.w, e.val, 1, EmptyDict, EmptyDict)
      [] e.out = "NoSuchFile" ->
           { Ok(S_ERROR(<<"__listSingleDirectory: Path does not exist.">>), e.w) }
      [] e.out = "IOError" ->
           { Ok(S_ERROR(<<"__listSingleDirectory: IOError while trying to list the directory">>
                        \o ExcText(e.out)), e.w) }
      [] OTHER ->
           { Ok(S_ERROR(<<"__listSingleDirectory: Exception caught while trying to list the directory">>
                        \o ExcText(e.out)), e.w) })

\* The keys of a dict of paths, in the order the remote paths are kept.
RECURSIVE KeysFrom(_, _)
KeysFrom(d, i) ==
  IF i > Len(RPathSeq) THEN <<>>
  ELSE (IF RPathSeq[i] \in DOMAIN d THEN <<RPathSeq[i]>> ELSE <<>>) \o KeysFrom(d, i + 1)
Keys(d) == KeysFrom(d, 1)

RECURSIVE SumSize(_, _)
SumSize(d, keys) ==
  IF keys = <<>> THEN 0 ELSE d[Head(keys)].Size + SumSize(d, Tail(keys))

getSingleDirectorySize(w, path, recursive) ==
  Then(listSingleDirectory(w, path, recursive), LAMBDA res, w1 :
    IF ~res.OK THEN { Ok(res, w1) }
    ELSE LET files == res.Value.Files IN
      { Ok(S_OK([Files |-> Len(Keys(files)), Size |-> SumSize(files, Keys(files)),
                 SubDirs |-> Cardinality(DOMAIN res.Value.SubDirs)]), w1) })

-----------------------------------------------------------------------------
(* The body of a batch loop, for one item.  ctl says how the loop goes on: *)
(* "next" with the two dicts updated, "return" with the value the          *)
(* operation returns at once, "raise" with the exception that escapes it.  *)

ItNext(succ, fail, w) ==
  [ctl |-> "next", ret |-> PyNone, successful |-> succ, failed |-> fail, w |-> w]
ItReturn(ret, succ, fail, w) ==
  [ctl |-> "return", ret |-> ret, successful |-> succ, failed |-> fail, w |-> w]
ItRaise(e, succ, fail, w) ==
  [ctl |-> "raise", ret |-> [Raised |-> e], successful |-> succ, failed |-> fail, w |-> w]

\* The loop body without its else branch: a failed item is filed nowhere.
\* C1 does not hold of it.
RouteLosingFailures(S, succ, fail, url, key) ==
  { IF e.exc # "none" THEN ItRaise(e.exc, succ, fail, e.w)
    ELSE IF ~HasKey(e.r, "OK") THEN ItRaise("TypeError", succ, fail, e.w)
    ELSE IF e.r.OK THEN ItNext(Put(succ, url, e.r.Value), fail, e.w)
    ELSE ItNext(succ, fail, e.w) : e \in S }

\* if res['OK']: successful[url] = res['Value'] / else: failed[url] = res[key]
Route(S, succ, fail, url, key) ==
  { IF e.exc # "none" THEN ItRaise(e.exc, succ, fail, e.w)
    ELSE IF ~HasKey(e.r, "OK") THEN ItRaise("TypeError", succ, fail, e.w)
    ELSE IF e.r.OK THEN ItNext(Put(succ, url, e.r.Value), fail, e.w)
    ELSE IF ~HasKey(e.r, key) THEN ItRaise("KeyError", succ, fail, e.w)
    ELSE ItNext(succ, Put(fail, url, e.r[key]), e.w) : e \in S }

\* Lines 96-101: a failure is filed under res['Value'].
existsItem(w, succ, fail, url) == Route(singleExists(w, url), succ, fail, url, "Value")
\* Lines 149-155
isFileItem(w, succ, fail, url) == Route(isSingleFile(w, url), succ, fail, url, "Message")
\* Lines 208-220: localPath is the second argument of getFile, NoSrc when not given.
getFileItem(w, succ, fail, src_url, localPath) ==
  LET fileName == Basename(src_url)
      dest_file == IF localPath # NoSrc THEN [str |-> Append(localPath, fileName)]
                   ELSE [tuple |-> <<"cwd", fileName>>]
  IN Route(getSingleFile(w, src_url, dest_file), succ, fail, src_url, "Message")

\* Line 299: self.__putSingleFile() hands over neither src_file nor dest_url.
putSingleFileCall(w) == { Raise("TypeError", w) }
\* Lines 293-304
putFileItem(w, succ, fail, dest_url, src_file) ==
  IF src_file = NoSrc THEN
    { ItReturn(S_ERROR(<<"putFile: Source file not set. Argument must be a dictionary {url : local path}">>),
               succ, fail, w) }
  ELSE Route(putSingleFileCall(w), succ, fail, dest_url, "Message")
\* Lines 411-417
removeFileItem(w, succ, fail, url) == Route(removeSingleFile(w, url), succ, fail, url, "Message")
\* Lines 478-484
getFileMetadataItem(w, succ, fail, url) ==
  Route(getSingleMetadata(w, url), succ, fail, url, "Message")
\* Lines 562-567
getFileSizeItem(w, succ, fail, url) == Route(getSingeFileSize(w, url), succ, fail, url, "Message")
\* Lines 653-659
isDirectoryItem(w, succ, fail, url) == Route(isSingleDirectory(w, url), succ, fail, url, "Message")
\* Lines 1188-1194
getDirectoryMetadataItem(w, succ, fail, url) ==
  Route(getSingleDirectoryMetadata(w, url), succ, fail, url, "Message")
\* Lines 1243-1248
getDirectorySizeItem(w, succ, fail, url) ==
  Route(getSingleDirectorySize(w, url, FALSE), succ, fail, url, "Message")

\* A whole call of putFile on a dict of destinations and sources, as
\* __putSingleDirectory makes it on line 776.
RECURSIVE putFileLoop(_, _, _, _, _)
putFileLoop(w, urls, i, succ, fail) ==
  IF i > Len(urls.keys) THEN { Ok(S_OK([Failed |-> fail, Successful |-> succ]), w) }
  ELSE UNION { CASE it.ctl = "next" -> putFileLoop(it.w, urls, i + 1, it.successful, it.failed)
                 [] it.ctl = "return" -> { Ok(it.ret, it.w) }
                 [] OTHER -> { Raise(it.ret.Raised, it.w) }
               : it \in putFileItem(w, succ, fail, urls.keys[i], urls.val[urls.keys[i]]) }
putFile(w, urls) == putFileLoop(w, urls, 1, EmptyDict, EmptyDict)

\* A whole call of isDirectory, as listDirectory makes it on line 1098.
RECURSIVE isDirectoryLoop(_, _, _, _, _)
isDirectoryLoop(w, urls, i, succ, fail) ==
  IF i > Len(urls.keys) THEN { Ok(S_OK([Failed |-> fail, Successful |-> succ]), w) }
  ELSE UNION { CASE it.ctl = "next" -> isDirectoryLoop(it.w, urls, i + 1, it.successful, it.failed)
                 [] it.ctl = "return" -> { Ok(it.ret, it.w) }
                 [] OTHER -> { Raise(it.ret.Raised, it.w) }
               : it \in isDirectoryItem(w, succ, fail, urls.keys[i]) }
isDirectory(w, urls) == isDirectoryLoop(w, urls, 1, EmptyDict, EmptyDict)

-----------------------------------------------------------------------------
(* Removal of a directory *)

\* Lines 1060-1067: the loop over the files of the listing.
RECURSIVE removeFilesLoop(_, _, _, _)
removeFilesLoop(w, filesDict, keys, st) ==
  IF keys = <<>> THEN { Ok(st, w) }
  ELSE LET sFile == Head(keys) IN
    Then(removeSingleFile(w, sFile), LAMBDA res, w1 :
      removeFilesLoop(w1, filesDict, Tail(keys),
        IF res.OK
          THEN [st EXCEPT !.FilesRemoved = @ + 1, !.SizeRemoved = @ + filesDict[sFile].Size]
          ELSE [st EXCEPT !.AllRemoved = FALSE]))

\* Lines 1028-1045
removeRecursive(w, path) ==
  Then(getSingleDirectorySize(w, path, TRUE), LAMBDA res, w1 :
    IF ~res.OK THEN { Ok(res, w1) }
    ELSE Try(hdfsRmr(w1, path), LAMBDA e :
      CASE e.out = "ok" ->
             { Ok(S_OK([AllRemoved |-> TRUE, FilesRemoved |-> res.Value.Files,
                        SizeRemoved |-> res.Value.Size]), e.w) }
        [] IsIOError(e.out) ->
             { Ok(S_ERROR(<<"__removeSingleDirectory: Failed to remove directory.">>
                          \o ExcText(e.out)), e.w) }
        [] OTHER -> { Raise(e.out, e.w) }))

\* removeFlat that removes the directory with all it holds at once.  C34 does
\* not hold of it.
removeFlatWhole(w, path) ==
  Try(hdfsRmr(w, path), LAMBDA e :
    CASE e.out = "ok" ->
           { Ok(S_OK([AllRemoved |-> TRUE, FilesRemoved |-> 0, SizeRemoved |-> 0]), e.w) }
      [] IsIOError(e.out) ->
           { Ok(S_OK([AllRemoved |-> FALSE, FilesRemoved |-> 0, SizeRemoved |-> 0]), e.w) }
      [] OTHER -> { Raise(e.out, e.w) })

\* Lines 1048-1079
removeFlat(w, path) ==
  Then(listSingleDirectory(w, path, FALSE), LAMBDA res, w1 :
    IF ~res.OK THEN
      { Ok(S_ERROR(<<"__removeSingleDirectory: Failed to list the directory.">>), w1) }
    ELSE LET filesDict == res.Value.Files
             subDirsDict == res.Value.SubDirs IN
      Then(removeFilesLoop(w1, filesDict, Keys(filesDict),
                           [AllRemoved |-> TRUE, FilesRemoved |-> 0, SizeRemoved |-> 0]),
           LAMBDA st, w2 :
        IF st.AllRemoved /\ Cardinality(DOMAIN subDirsDict) = 0
          THEN Try(hdfsRmr(w2, path), LAMBDA e :
            CASE e.out = "ok" -> { Ok(S_OK(st), e.w) }
              [] IsIOError(e.out) -> { Ok(S_OK([st EXCEPT !.AllRemoved = FALSE]), e.w) }
              [] OTHER -> { Raise(e.out, e.w) })
          ELSE { Ok(S_OK(st), w2) }))

removeSingleDirectory(w, path, recursive) ==
  Then(isSingleDirectory(w, path), LAMBDA res, w1 :
    IF ~HasKey(res, "OK") THEN { Raise("TypeError", w1) }
    ELSE IF ~res.OK THEN { Ok(res, w1) }
    ELSE IF ~res.Value THEN
      { Ok(S_ERROR(<<"__removeSingleDirectory: Path is not a directory">>), w1) }
    ELSE IF recursive THEN removeRecursive(w1, path)
    ELSE removeFlat(w1, path))

\* Lines 986-999
removeDirectoryItem(w, succ, fail, url, recursive) ==
  { IF e.exc # "none" THEN ItRaise(e.exc, succ, fail, e.w)
    ELSE IF e.r.OK THEN
      LET res == e.r.Value
          stats == [FilesRemoved |-> res.FilesRemoved, SizeRemoved |-> res.SizeRemoved] IN
      IF res.AllRemoved THEN ItNext(Put(succ, url, stats), fail, e.w)
      ELSE ItNext(succ, Put(fail, url, stats), e.w)
    ELSE ItNext(succ, Put(fail, url, e.r.Message), e.w)
    : e \in removeSingleDirectory(w, url, recursive) }

-----------------------------------------------------------------------------
(* Upload of a directory *)

\* os.listdir( dir ): the names in dir, in any order.
ChildNames(fs, dir) ==
  { Basename(q) : q \in { x \in DOMAIN fs : Len(x) > 0 /\ Parent(x) = dir /\ fs[x].kind # "none" } }
Orders(S) ==
  { o \in [1..Cardinality(S) -> S] : \A i, j \in 1..Cardinality(S) : o[i] = o[j] => i = j }
osListdir(fs, dir) == Orders(ChildNames(fs, dir))

RECURSIVE SumValues(_, _)
SumValues(d, S) ==
  IF S = {} THEN 0
  ELSE LET k == CHOOSE x \in S : TRUE IN d[k] + SumValues(d, S \ {k})

\* Lines 775-786: the files of this level go to putFile together.
putDirFiles(w, st) ==
  IF Len(st.directoryFiles.keys) > 0 THEN
    Then(putFile(w, st.directoryFiles), LAMBDA res, w1 :
      IF ~res.OK THEN
        { Ok(S_OK([AllPut |-> FALSE, Files |-> st.filesPut, Size |-> st.sizePut]), w1) }
      ELSE LET done == res.Value.Successful IN
        { Ok(S_OK([AllPut |-> st.allSuccessful /\ DOMAIN res.Value.Failed = {},
                   Files |-> st.filesPut + Cardinality(DOMAIN done),
                   Size |-> st.sizePut + SumValues(done, DOMAIN done)]), w1) })
  ELSE { Ok(S_OK([AllPut |-> st.allSuccessful, Files |-> st.filesPut, Size |-> st.sizePut]), w) }

RECURSIVE putSingleDirectory(_, _, _)
RECURSIVE putDirLoop(_, _, _, _, _, _)

\* Lines 766-773: res is whatever the last recursive call returned, and no
\* value at all when no entry before this one was a directory.
putDirTally(w, src_directory, dest_directory, contents, i, st) ==
  IF ~st.res.bound THEN { Raise("UnboundLocalError", w) }
  ELSE LET res == st.res.v IN
    IF ~res.OK THEN putDirLoop(w, src_directory, dest_directory, contents, i + 1, st)
    ELSE putDirLoop(w, src_directory, dest_directory, contents, i + 1,
           [st EXCEPT !.allSuccessful = @ /\ res.Value.AllPut,
                      !.filesPut = @ + res.Value.Files,
                      !.sizePut = @ + res.Value.Size])

\* Lines 758-773: the loop over the entries, from the i-th on.
putDirLoop(w, src_directory, dest_directory, contents, i, st) ==
  IF i > Len(contents) THEN putDirFiles(w, st)
  ELSE LET fileName == contents[i]
           localPath == Append(src_directory, fileName)
           remotePath == Append(dest_directory, fileName) IN
    IF ~osPathIsdir(w.local, localPath) THEN
      putDirTally(w, src_directory, dest_directory, contents, i,
        [st EXCEPT !.directoryFiles =
           [keys |-> IF remotePath \in DOMAIN @.val THEN @.keys ELSE Append(@.keys, remotePath),
            val |-> Put(@.val, remotePath, localPath)]])
    ELSE Then(putSingleDirectory(w, localPath, remotePath), LAMBDA res, w1 :
      putDirTally(w1, src_directory, dest_directory, contents, i, [st EXCEPT !.res = Bound(res)]))

putSingleDirectory(w, src_directory, dest_directory) ==
  IF ~osPathIsdir(w.local, src_directory) THEN
    { Ok(S_ERROR(<<"__putSingleDirectory: The supplied source directory does not exist or is not a directory.">>),
         w) }
  ELSE UNION { putDirLoop(w, src_directory, dest_directory, contents, 1,
                 [res |-> Unbound, allSuccessful |-> TRUE, filesPut |-> 0, sizePut |-> 0,
                  directoryFiles |-> [keys |-> <<>>, val |-> EmptyDict]])
               : contents \in osListdir(w.local, src_directory) }

\* Lines 714-729
putDirectoryItem(w, succ, fail, destDir, sourceDir) ==
  IF sourceDir = NoSrc THEN
    { ItReturn(S_ERROR(<<"putDirectory: No source directory set, make sure the input format is correct { dest. dir : source dir }">>),
               succ, fail, w) }
  ELSE { IF e.exc # "none" THEN ItRaise(e.exc, succ, fail, e.w)
         ELSE IF e.r.OK THEN
           LET stats == [Files |-> e.r.Value.Files, Size |-> e.r.Value.Size] IN
           IF e.r.Value.AllPut THEN ItNext(Put(succ, destDir, stats), fail, e.w)
           ELSE ItNext(succ, Put(fail, destDir, stats), e.w)
         ELSE ItNext(succ, Put(fail, destDir, [Files |-> 0, Size |-> 0]), e.w)
         : e \in putSingleDirectory(w, sourceDir, destDir) }

-----------------------------------------------------------------------------
(* Download of a directory *)

\* a + b on the names of the model.
NameCat(a, b) ==
  CASE a = "p" /\ b = "p" -> "pp"
    [] a = "d" /\ b = "d" -> "dd"
    [] a = "a" /\ b = "a" -> "aa"
    [] a = "s" /\ b = "s" -> "ss"
    [] OTHER -> "other"
\* path + name, with no separator: the last name of path grows.
Glue(path, name) == Append(Parent(path), NameCat(Basename(path), name))

\* The local tree after the subtree of src_dir arrived at dest_dir.
LGot(w, src_dir, dest_dir) ==
  [q \in DOMAIN w.local |->
     IF \E r \in DOMAIN w.remote :
          /\ IsPrefix(src_dir, r) /\ Present(w.remote, r)
          /\ q = dest_dir \o SubSeq(r, Len(src_dir) + 1, Len(r))
       THEN LET r == CHOOSE x \in DOMAIN w.remote :
                       /\ IsPrefix(src_dir, x)
                       /\ q = dest_dir \o SubSeq(x, Len(src_dir) + 1, Len(x))
            IN w.remote[r]
       ELSE w.local[q]]
\* hdfs.get( src_dir, dest_dir )
hdfsGet(w, src_dir, dest_dir) ==
  { Prim("ok", TRUE, Log([w EXCEPT !.local = LGot(w, src_dir, dest_dir)], "get", src_dir, "ok")) }
  \cup { Prim(o, FALSE, Log(w, "get", src_dir, o)) : o \in {"IOError", "Exception"} }

\* Lines 883-889: the loop over the files of the listing.
RECURSIVE getFilesLoop(_, _, _, _, _)
getFilesLoop(w, src_dir, dest, keys, st) ==
  IF keys = <<>> THEN { Ok(S_OK(st), w) }
  ELSE LET aFile == Head(keys)
           target == [str |-> dest \o SubSeq(aFile, Len(src_dir) + 1, Len(aFile))] IN
    Then(getSingleFile(w, aFile, target), LAMBDA res, w1 :
      getFilesLoop(w1, src_dir, dest, Tail(keys),
        IF res.OK THEN [st EXCEPT !.Files = @ + 1, !.Size = @ + res.Value]
        ELSE [st EXCEPT !.AllGot = FALSE]))

\* Lines 875-914, paths of the model never ending in '/'.
getDirCopy(w, src_dir, dest_dir, filesDict) ==
  LET dest == Glue(dest_dir, Basename(src_dir)) IN
  IF osPathExists(w.local, dest) THEN
    getFilesLoop(w, src_dir, dest, Keys(filesDict), [AllGot |-> TRUE, Files |-> 0, Size |-> 0])
  ELSE Try(hdfsGet(w, src_dir, dest_dir), LAMBDA e :
    CASE e.out = "ok" ->
           { Ok(S_OK([AllGot |-> TRUE, Files |-> Len(Keys(filesDict)),
                      Size |-> SumSize(filesDict, Keys(filesDict))]), e.w) }
      [] IsIOError(e.out) ->
           { Ok(S_ERROR(<<"__getSingleDirectory: Error while downloading directory">>), e.w) }
      [] OTHER -> { Raise(e.out, e.w) })

getSingleDirectory(w, src_dir, dest_dir) ==
  Then(isSingleDirectory(w, src_dir), LAMBDA res, w1 :
    IF ~HasKey(res, "OK") THEN { Raise("TypeError", w1) }
    ELSE IF ~res.OK THEN
      { Ok(S_ERROR(<<"__getSingleDirectory: Failed to find the source directory.">>), w1) }
    ELSE IF ~res.Value THEN
      { Ok(S_ERROR(<<"__getSingleDirectory: Path is not a directory.">>), w1) }
    ELSE Then(listSingleDirectory(w1, src_dir, TRUE), LAMBDA r2, w2 :
      IF ~r2.OK THEN
        { Ok(S_ERROR(<<"__getSingleDirectory: Failed to list source directory.">>), w2) }
      ELSE getDirCopy(w2, src_dir, dest_dir, r2.Value.Files)))

\* Lines 814-832: localPath is the second argument of getDirectory, NoSrc when
\* not given, and the working directory is l then.
getDirectoryItem(w, succ, fail, src_dir, localPath) ==
  LET dirName == Basename(src_dir)
      dest_dir == IF localPath # NoSrc THEN Append(localPath, dirName)
                  ELSE Append(<<"l">>, dirName) IN
  { IF e.exc # "none" THEN ItRaise(e.exc, succ, fail, e.w)
    ELSE IF e.r.OK THEN
      LET stats == [Files |-> e.r.Value.Files, Size |-> e.r.Value.Size] IN
      IF e.r.Value.AllGot THEN ItNext(Put(succ, src_dir, stats), fail, e.w)
      ELSE ItNext(succ, Put(fail, src_dir, stats), e.w)
    ELSE ItNext(succ, Put(fail, src_dir, [Files |-> 0, Size |-> 0]), e.w)
    : e \in getSingleDirectory(w, src_dir, dest_dir) }

-----------------------------------------------------------------------------
(* Arguments *)

\* What a caller may pass: one path, a list of paths, a dict from paths to
\* local sources (keys in iteration order), or a value of another type.
StrArg(path) == [shape |-> "str", keys |-> <<path>>, val |-> EmptyDict]
ListArg(paths) == [shape |-> "list", keys |-> paths, val |-> EmptyDict]
DictArg(keys, val) == [shape |-> "dict", keys |-> keys, val |-> val]
OtherArg == [shape |-> "other", keys |-> <<>>, val |-> EmptyDict]

\* The paths of a list, each once, in the order of their first occurrence.
RECURSIVE Unique(_)
Unique(paths) ==
  IF paths = <<>> THEN <<>>
  ELSE LET front == Unique(SubSeq(paths, 1, Len(paths) - 1))
           last == paths[Len(paths)] IN
    IF \E i \in 1..Len(front) : front[i] = last THEN front ELSE Append(front, last)
Range(seq) == { seq[i] : i \in 1..Len(seq) }

\* checkArgumentFormat( path ): a dict from every path to its source, False
\* (NoSrc) for the paths of a string or a list.
checkArgumentFormat(path) ==
  CASE path.shape = "str" ->
         S_OK([keys |-> path.keys, val |-> [k \in Range(path.keys) |-> NoSrc]])
    [] path.shape = "list" ->
         S_OK([keys |-> Unique(path.keys), val |-> [k \in Range(path.keys) |-> NoSrc]])
    [] path.shape = "dict" -> S_OK([keys |-> path.keys, val |-> path.val])
    [] OTHER -> S_ERROR(<<"checkArgumentFormat: Supplied path is not of the correct format.">>)

-----------------------------------------------------------------------------
(* State *)

VARIABLES
  remote,      \* the remote file system: RPaths -> Nodes
  local,       \* the local file system: LPaths -> Nodes
  pc,          \* "idle", "check" (listDirectory before its loop), "loop", "done"
  op,          \* the operation called
  opt,         \* its other arguments: [localPath, recursive]
  input,       \* the normalized argument: [keys, val]
  work,        \* the sequence the loop iterates over
  idx,         \* number of items the loop has taken
  successful,  \* the dict of the same name
  failed,      \* the dict of the same name
  ret,         \* what the call returned, [Raised |-> e] when e escaped it
  trace,       \* the primitive calls of this call, with their outcomes
  remote0,     \* the remote file system when the call began
  local0,      \* the local file system when the call began
  followed,    \* what the call before returned, when this call is made on that result
  hdfs_ctx,    \* self.hdfs_ctx and the calls that made and closed it
  cs,          \* the configuration SiteSEMapping reads: countries, sites and their SEs
  country,     \* getSEsForCountry: the country the loop is at
  mappedCountries  \* getSEsForCountry: the countries the loop has seen

vars == <<remote, local, pc, op, opt, input, work, idx, successful, failed, ret, trace,
          remote0, local0, followed, hdfs_ctx, cs, country, mappedCountries>>

\* The storage plug-in reads no configuration.
NoCS == [AssignedTo |-> <<>>, AssociatedSEs |-> <<>>, Resources |-> <<>>, LocalSE |-> <<>>]
NoInput == [keys |-> <<>>, val |-> EmptyDict]
NoOpt == [localPath |-> NoSrc, recursive |-> FALSE]
World == [remote |-> remote, local |-> local, trace |-> trace]


\* Lines 47-51 of __init__: hdfs.hdfs( Host, Port ) is called once; the
\* attribute is set when it returns and is left unset when it raises.
construct ==
  { [set |-> TRUE, made |-> 1, closed |-> 0],
    [set |-> FALSE, made |-> 0, closed |-> 0] }
\* self.hdfs_ctx.close() of line 57 that never makes the call.
closeNever(ctx) == ctx
\* Lines 56-60 of __del__: self.hdfs_ctx.close() in try / except Exception;
\* an unset attribute is an AttributeError the except takes.
close(ctx) == IF ctx.set THEN [ctx EXCEPT !.closed = @ + 1] ELSE ctx

RemoteFs(p, d, a, s) ==
  (<<"p">> :> p) @@ (<<"d">> :> d) @@ (<<"d", "a">> :> a) @@ (<<"d", "s">> :> s)
LocalFs(f, l, p, a, d) ==
  (<<"f">> :> f) @@ (<<"l">> :> l) @@ (<<"l", "p">> :> p) @@ (<<"l", "a">> :> a)
    @@ (<<"l", "d">> :> d)

\* The remote trees a call may find: a file and a directory holding a file
\* and a directory; an empty directory and a directory holding only a file;
\* a directory holding only a directory.
InitRemotes ==
  { RemoteFs(File(1), Dir, File(MaxSize), Dir),
    RemoteFs(Dir, Dir, File(1), Absent),
    RemoteFs(Absent, Dir, Absent, Dir) }
\* The local trees: a source file and a directory holding a file, a directory
\* and the directory a download of d arrives in; an empty source and an empty
\* directory; a directory in place of the source and nothing else.
InitLocals ==
  { LocalFs(File(MaxSize), Dir, File(1), Dir, Dir),
    LocalFs(File(0), Dir, Absent, Absent, Absent),
    LocalFs(Dir, Absent, Absent, Absent, Absent) }

Init ==
  /\ remote \in InitRemotes
  /\ local \in InitLocals
  /\ pc = "idle"
  /\ op = "none"
  /\ opt = NoOpt
  /\ input = NoInput
  /\ work = <<>>
  /\ idx = 0
  /\ successful = EmptyDict
  /\ failed = EmptyDict
  /\ ret = PyNone
  /\ trace = <<>>
  /\ remote0 = remote
  /\ local0 = local
  /\ followed = PyNone
  /\ hdfs_ctx \in construct
  /\ cs = NoCS
  /\ country = ""
  /\ mappedCountries = <<>>
  \* No operation reads self.hdfs_ctx: the instance that failed to acquire it
  \* is followed from one pair of trees.
  /\ ~hdfs_ctx.set => (remote = RemoteFs(Dir, Dir, File(1), Absent)
                        /\ local = LocalFs(File(0), Dir, Absent, Absent, Absent))

-----------------------------------------------------------------------------
(* The public operations *)

\* self.log.debug( ".." ) % len( urls ): the logger's result is no string, so
\* the remainder is taken of a bool (ZeroDivisionError when there is no url) or
\* of None (TypeError).
debugMod(n) == {"TypeError"} \cup (IF n = 0 THEN {"ZeroDivisionError"} ELSE {"none"})
\* What an operation does between checkArgumentFormat and its loop.
Prologue(o, urls) ==
  IF o = "getDirectoryMetadata" THEN debugMod(Len(urls.keys)) ELSE {"none"}

\* An operation up to its loop: lines 88-94 of exists, and the like of the
\* other operations.
Begin(o, path, options) ==
  /\ pc = "idle"
  /\ op' = o
  /\ opt' = options
  /\ idx' = 0
  /\ successful' = EmptyDict
  /\ failed' = EmptyDict
  /\ trace' = <<>>
  /\ remote0' = remote
  /\ local0' = local
  /\ UNCHANGED <<remote, local, followed, hdfs_ctx, cs, country, mappedCountries>>
  /\ LET res == checkArgumentFormat(path) IN
     IF ~res.OK
       THEN pc' = "done" /\ ret' = res /\ input' = NoInput /\ work' = <<>>
       ELSE /\ input' = res.Value
            /\ work' = res.Value.keys
            /\ \E x \in Prologue(o, res.Value) :
                 IF x # "none" THEN pc' = "done" /\ ret' = [Raised |-> x]
                 ELSE /\ pc' = (IF o = "listDirectory" THEN "check" ELSE "loop")
                      /\ ret' = PyNone

\* Lines 1114-1119
listDirectoryItem(w, succ, fail, directory) ==
  Route(listSingleDirectory(w, directory, FALSE), succ, fail, directory, "Message")

\* The loop body of operation o for one item.
Item(o, w, succ, fail, url, src, options) ==
  CASE o = "exists" -> existsItem(w, succ, fail, url)
    [] o = "isFile" -> isFileItem(w, succ, fail, url)
    [] o = "getFile" -> getFileItem(w, succ, fail, url, options.localPath)
    [] o = "putFile" -> putFileItem(w, succ, fail, url, src)
    [] o = "removeFile" -> removeFileItem(w, succ, fail, url)
    [] o = "getFileMetadata" -> getFileMetadataItem(w, succ, fail, url)
    [] o = "getFileSize" -> getFileSizeItem(w, succ, fail, url)
    [] o = "isDirectory" -> isDirectoryItem(w, succ, fail, url)
    [] o = "putDirectory" -> putDirectoryItem(w, succ, fail, url, src)
    [] o = "getDirectory" -> getDirectoryItem(w, succ, fail, url, options.localPath)
    [] o = "removeDirectory" -> removeDirectoryItem(w, succ, fail, url, options.recursive)
    [] o = "listDirectory" -> listDirectoryItem(w, succ, fail, url)
    [] o = "getDirectoryMetadata" -> getDirectoryMetadataItem(w, succ, fail, url)
    [] o = "getDirectorySize" -> getDirectorySizeItem(w, succ, fail, url)

\* for url in urls, from the last item backwards.
NextUrlBackwards(urls, done) == urls[Len(urls) - done]
\* for url in urls: the item the loop takes after it has taken done items.
NextUrl(urls, done) == urls[done + 1]

\* One turn of the loop of the running operation.
Step ==
  /\ pc = "loop"
  /\ idx < Len(work)
  /\ LET url == NextUrl(work, idx) IN
     \E it \in Item(op, World, successful, failed, url, input.val[url], opt) :
       /\ remote' = it.w.remote
       /\ local' = it.w.local
       /\ trace' = it.w.trace
       /\ successful' = it.successful
       /\ failed' = it.failed
       /\ idx' = idx + 1
       /\ IF it.ctl = "next" THEN pc' = "loop" /\ ret' = ret
          ELSE pc' = "done" /\ ret' = it.ret
  /\ UNCHANGED <<op, opt, input, work, remote0, local0, followed, hdfs_ctx, cs, country,
                 mappedCountries>>

\* return S_OK( { 'Failed' : failed, 'Successful' : successful } )
Return ==
  /\ pc = "loop"
  /\ idx = Len(work)
  /\ pc' = "done"
  /\ ret' = S_OK([Failed |-> failed, Successful |-> successful])
  /\ UNCHANGED <<remote, local, op, opt, input, work, idx, successful, failed, trace,
                 remote0, local0, followed, hdfs_ctx, cs, country, mappedCountries>>

\* The keys of input that Successful maps to TRUE / to FALSE, in the order of input.
Chosen(keys, succ, b) == SelectSeq(keys, LAMBDA k : k \in DOMAIN succ /\ succ[k] = b)
RECURSIVE PutAll(_, _, _)
PutAll(d, keys, v) == IF keys = <<>> THEN d ELSE PutAll(Put(d, Head(keys), v), Tail(keys), v)

\* Lines 1098-1112 of listDirectory: isDirectory on all urls, then the split.
ListCheck ==
  /\ pc = "check"
  /\ \E e \in isDirectory(World, input) :
       /\ remote' = e.w.remote
       /\ local' = e.w.local
       /\ trace' = e.w.trace
       /\ IF e.exc # "none"
            THEN pc' = "done" /\ ret' = [Raised |-> e.exc] /\ UNCHANGED <<work, failed>>
          ELSE IF ~e.r.OK
            THEN pc' = "done" /\ ret' = e.r /\ UNCHANGED <<work, failed>>
          ELSE /\ pc' = "loop"
               /\ ret' = ret
               /\ work' = Chosen(input.keys, e.r.Value.Successful, TRUE)
               /\ failed' = PutAll(e.r.Value.Failed,
                                   Chosen(input.keys, e.r.Value.Successful, FALSE),
                                   <<"listDirectory: path is not a directory">>)
  /\ UNCHANGED <<op, opt, input, idx, successful, remote0, local0, followed, hdfs_ctx, cs,
                 country, mappedCountries>>

\* The caller has taken the result: nothing of a call outlives it.
Discard ==
  /\ pc = "done"
  /\ pc' = "idle"
  /\ op' = "none"
  /\ opt' = NoOpt
  /\ input' = NoInput
  /\ work' = <<>>
  /\ idx' = 0
  /\ successful' = EmptyDict
  /\ failed' = EmptyDict
  /\ ret' = PyNone
  /\ trace' = <<>>
  /\ remote0' = remote
  /\ local0' = local
  /\ followed' = PyNone
  /\ UNCHANGED <<remote, local, hdfs_ctx, cs, country, mappedCountries>>

\* __putSingleFile( src_file, dest_url ), called with both its arguments.
putSingleFileCalled(src_file, dest_url) ==
  /\ pc = "idle"
  /\ \E e \in putSingleFile(World, src_file, dest_url) :
       /\ remote' = e.w.remote
       /\ local' = e.w.local
       /\ trace' = e.w.trace
       /\ ret' = (IF e.exc = "none" THEN e.r ELSE [Raised |-> e.exc])
  /\ pc' = "done"
  /\ op' = "__putSingleFile"
  /\ opt' = NoOpt
  /\ input' = [keys |-> <<dest_url>>, val |-> (dest_url :> src_file)]
  /\ work' = <<dest_url>>
  /\ idx' = 1
  /\ successful' = EmptyDict
  /\ failed' = EmptyDict
  /\ remote0' = remote
  /\ local0' = local
  /\ UNCHANGED <<followed, hdfs_ctx, cs, country, mappedCountries>>

\* __getSingleFile( src_url, dest_file ), called directly: by a caller that
\* holds no result, or by the caller of __putSingleFile on what that returned.
getSingleFileCalled(src_url, dest_file) ==
  /\ pc = "idle" \/ (pc = "done" /\ op = "__putSingleFile" /\ work = <<src_url>>)
  /\ \E e \in getSingleFile([remote |-> remote, local |-> local, trace |-> <<>>],
                             src_url, [str |-> dest_file]) :
       /\ remote' = e.w.remote
       /\ local' = e.w.local
       /\ trace' = e.w.trace
       /\ ret' = (IF e.exc = "none" THEN e.r ELSE [Raised |-> e.exc])
  /\ followed' = (IF pc = "done" THEN [src_file |-> input.val[src_url], ret |-> ret] ELSE PyNone)
  /\ pc' = "done"
  /\ op' = "__getSingleFile"
  /\ opt' = [localPath |-> dest_file, recursive |-> FALSE]
  /\ input' = [keys |-> <<src_url>>, val |-> (src_url :> NoSrc)]
  /\ work' = <<src_url>>
  /\ idx' = 1
  /\ successful' = EmptyDict
  /\ failed' = EmptyDict
  /\ remote0' = remote
  /\ local0' = local
  /\ UNCHANGED <<hdfs_ctx, cs, country, mappedCountries>>

\* notSupported, returning the envelope with nothing in it instead.
notSupportedAsEnvelope(name) == S_OK([Failed |-> EmptyDict, Successful |-> EmptyDict])

\* Lines 600-626: the four operations the plug-in does not support return
\* S_ERROR( errStr ) on whatever they are called with.
notSupported(name) == S_ERROR(<<name, "Operation not supported.">>)
\* A call of one of them with the arguments parms.
notSupportedCalled(name, parms) ==
  /\ pc = "idle"
  /\ pc' = "done"
  /\ op' = name
  /\ opt' = NoOpt
  /\ input' = [keys |-> parms.keys, val |-> parms.val]
  /\ work' = <<>>
  /\ idx' = 0
  /\ successful' = EmptyDict
  /\ failed' = EmptyDict
  /\ ret' = notSupported(name)
  /\ trace' = <<>>
  /\ remote0' = remote
  /\ local0' = local
  /\ UNCHANGED <<remote, local, followed, hdfs_ctx, cs, country, mappedCountries>>

-----------------------------------------------------------------------------
(* The calls the model makes *)

ArgPaths == { <<"p">>, <<"d">>, <<"d", "a">> }
PathLists == UNION { [1..n -> ArgPaths] : n \in 0..MaxBatch }
PathArgs == {OtherArg} \cup { StrArg(q) : q \in ArgPaths } \cup { ListArg(l) : l \in PathLists }

PutDests == { <<"p">>, <<"d">> }
Sources == { <<"f">>, <<"l">>, NoSrc }
PutKeys == UNION { { k \in [1..n -> PutDests] : \A i, j \in 1..n : k[i] = k[j] => i = j }
                   : n \in 0..MaxBatch }
PutArgs ==
  {OtherArg, StrArg(<<"p">>)}
  \cup UNION { { DictArg(k, v) : v \in [Range(k) -> Sources] } : k \in PutKeys }

\* A call is made on an instance that is running none; each call draws its
\* arguments when it is made.
exists == pc = "idle" /\ \E a \in PathArgs : Begin("exists", a, NoOpt)
isFile == pc = "idle" /\ \E a \in PathArgs : Begin("isFile", a, NoOpt)
getFile ==
  /\ pc = "idle"
  /\ \E a \in PathArgs, lp \in {NoSrc, <<"l">>} :
       Begin("getFile", a, [localPath |-> lp, recursive |-> FALSE])
putFileCall == pc = "idle" /\ \E a \in PutArgs : Begin("putFile", a, NoOpt)
removeFile == pc = "idle" /\ \E a \in PathArgs : Begin("removeFile", a, NoOpt)
getFileMetadata == pc = "idle" /\ \E a \in PathArgs : Begin("getFileMetadata", a, NoOpt)
getFileSize == pc = "idle" /\ \E a \in PathArgs : Begin("getFileSize", a, NoOpt)
isDirectoryCall == pc = "idle" /\ \E a \in PathArgs : Begin("isDirectory", a, NoOpt)
putDirectory == pc = "idle" /\ \E a \in PutArgs : Begin("putDirectory", a, NoOpt)
getDirectory ==
  /\ pc = "idle"
  /\ \E a \in PathArgs, lp \in {NoSrc, <<"l">>} :
       Begin("getDirectory", a, [localPath |-> lp, recursive |-> FALSE])
removeDirectory ==
  /\ pc = "idle"
  /\ \E a \in PathArgs, rec \in BOOLEAN :
       Begin("removeDirectory", a, [localPath |-> NoSrc, recursive |-> rec])
listDirectory == pc = "idle" /\ \E a \in PathArgs : Begin("listDirectory", a, NoOpt)
getDirectoryMetadata == pc = "idle" /\ \E a \in PathArgs : Begin("getDirectoryMetadata", a, NoOpt)
getDirectorySize == pc = "idle" /\ \E a \in PathArgs : Begin("getDirectorySize", a, NoOpt)
upload == pc = "idle" /\ \E src \in {<<"f">>, <<"l">>} : putSingleFileCalled(src, <<"p">>)
download == pc \in {"idle", "done"} /\ getSingleFileCalled(<<"p">>, <<"l", "p">>)

\* *parms of the operations that are not supported: a value that is no
\* path, one path, a list of paths as long as a batch may be.
AnyParms == { OtherArg, StrArg(<<"p">>), ListArg([i \in 1..MaxBatch |-> RPathSeq[i]]) }

\* __del__: the instance goes when no call on it is running and none of its
\* results is held; no call is made on it afterwards.
del ==
  /\ pc = "idle"
  /\ pc' = "deleted"
  /\ hdfs_ctx' = close(hdfs_ctx)
  /\ UNCHANGED <<remote, local, op, opt, input, work, idx, successful, failed, ret, trace,
                 remote0, local0, followed, cs, country, mappedCountries>>

prestageFile == pc = "idle" /\ \E a \in AnyParms : notSupportedCalled("prestageFile", a)
prestageFileStatus == pc = "idle" /\ \E a \in AnyParms : notSupportedCalled("prestageFileStatus", a)
pinFile == pc = "idle" /\ \E a \in AnyParms : notSupportedCalled("pinFile", a)
releaseFile == pc = "idle" /\ \E a \in AnyParms : notSupportedCalled("releaseFile", a)

Next ==
  \/ exists
  \/ isFile
  \/ getFile
  \/ putFileCall
  \/ removeFile
  \/ getFileMetadata
  \/ getFileSize
  \/ isDirectoryCall
  \/ putDirectory
  \/ getDirectory
  \/ removeDirectory
  \/ listDirectory
  \/ getDirectoryMetadata
  \/ getDirectorySize
  \/ prestageFile
  \/ prestageFileStatus
  \/ pinFile
  \/ releaseFile
  \/ upload
  \/ download
  \/ Step
  \/ ListCheck
  \/ Return
  \/ Discard
  \/ del

Spec == Init /\ [][Next]_vars

-----------------------------------------------------------------------------
(* Core/Utilities/SiteSEMapping.py and the service handler                 *)
(*                                                                         *)
(* The functions of SiteSEMapping read the configuration cs; the handler   *)
(* of HDFSStorageElementHandler.py holds a context of its own, which       *)
(* hdfs_ctx stands for here, and looks at the remote file system.  pc, op, *)
(* input, ret and trace are used as in the plug-in; the other variables    *)
(* keep their first values.                                                *)

MaxCountries == 3

\* The country codes of /Countries in the configuration.
Countries == { <<"ch", "de", "fr", "it">>[i] : i \in 1..MaxCountries }
\* The names of storage elements.
SENames == {"CERN-RAW", "PIC-RAW"}

\* The configurations: AssignedTo of some countries, the AssociatedSEs section
\* of some ( { option : SE } ), the storage resources of the eligible sites and
\* the Storage / LocalSE site mapping of Operations.  The countries vary with
\* the sites fixed and the sites vary with the countries fixed.
Configs ==
  LET Sites == {"LCG.CERN.ch", "LCG.PIC.es"}
      Partial(D, R) == UNION { [X -> R] : X \in SUBSET D }
      SEsOf(c) == [SE1 |-> "CERN-RAW", SE2 |-> c]
  IN { [AssignedTo |-> a, AssociatedSEs |-> [c \in D |-> SEsOf(c)],
        Resources |-> NoCS.Resources, LocalSE |-> NoCS.LocalSE]
       : a \in Partial(Countries, Countries), D \in SUBSET Countries }
     \cup
     { [AssignedTo |-> NoCS.AssignedTo, AssociatedSEs |-> NoCS.AssociatedSEs,
        Resources |-> r, LocalSE |-> l]
       : r \in Partial(Sites, SUBSET SENames), l \in Partial(Sites, SUBSET SENames) }

\* opsHelper.getValue( '/Countries/%s/AssignedTo' % c, default ): the value of
\* the option, the default when it is not set.
getValue(config, c, default) ==
  IF c \in DOMAIN config.AssignedTo THEN config.AssignedTo[c] ELSE default

\* opsHelper.getOptionsDict( '/Countries/%s/AssociatedSEs' % c )
getOptionsDict(config, c) ==
  IF c \in DOMAIN config.AssociatedSEs THEN S_OK(config.AssociatedSEs[c])
  ELSE S_ERROR(<<"Path does not exist or it's not a section">>)

\* The loop body of getSEsForCountry remembering no country it goes to: line
\* 150 left out.  C38 does not hold of it.
whileBodyNotRemembering(config, c, mapped) ==
  LET mappedCountry == getValue(config, c, c) IN
  IF mappedCountry = c THEN [next |-> "break", country |-> c, mappedCountries |-> mapped]
  ELSE IF \E i \in DOMAIN mapped : mapped[i] = mappedCountry
    THEN [next |-> "return", country |-> c, mappedCountries |-> mapped]
  ELSE [next |-> "continue", country |-> mappedCountry, mappedCountries |-> mapped]

\* Lines 143-150: one turn of the while loop at country c with the list
\* mappedCountries: it breaks, returns the error, or goes on.
whileBody(config, c, mapped) ==
  LET mappedCountry == getValue(config, c, c) IN
  IF mappedCountry = c THEN [next |-> "break", country |-> c, mappedCountries |-> mapped]
  ELSE IF \E i \in DOMAIN mapped : mapped[i] = mappedCountry
    THEN [next |-> "return", country |-> c, mappedCountries |-> mapped]
  ELSE [next |-> "continue", country |-> mappedCountry,
        mappedCountries |-> Append(mapped, mappedCountry)]

\* getSEsForCountry( country ), lines 140-141: the call, up to the loop.
getSEsForCountry ==
  /\ pc = "idle"
  /\ \E c \in Countries :
       /\ country' = c
       /\ mappedCountries' = <<c>>
       /\ input' = [keys |-> <<c>>, val |-> EmptyDict]
  /\ pc' = "while"
  /\ op' = "getSEsForCountry"
  /\ UNCHANGED <<remote, local, opt, work, idx, successful, failed, ret, trace,
                 remote0, local0, followed, hdfs_ctx, cs>>

\* Lines 143-155: one turn of the loop; after the break, the look-up of the
\* AssociatedSEs and the return.
getSEsForCountryLoop ==
  /\ pc = "while"
  /\ LET b == whileBody(cs, country, mappedCountries) IN
       /\ country' = b.country
       /\ mappedCountries' = b.mappedCountries
       /\ CASE b.next = "break" ->
                 /\ pc' = "done"
                 /\ ret' = LET res == getOptionsDict(cs, b.country) IN
                           IF ~res.OK
                             THEN S_ERROR(<<"Failed to obtain AssociatedSEs for", b.country>>)
                             ELSE S_OK({ res.Value[k] : k \in DOMAIN res.Value })
            [] b.next = "return" ->
                 /\ pc' = "done"
                 /\ ret' = S_ERROR(<<"Circular mapping detected for", b.country>>)
            [] OTHER -> UNCHANGED <<pc, ret>>
  /\ UNCHANGED <<remote, local, op, opt, input, work, idx, successful, failed, trace,
                 remote0, local0, followed, hdfs_ctx, cs>>

\* getSiteSEMapping( *args ), lines 18-55: def getSiteSEMapping() takes no
\* argument.  The SEs of the eligible sites, then the sites and SEs of the
\* LocalSE mapping added; a list of SEs is a set here.
getSiteSEMapping(config, args) ==
  IF Len(args) # 0 THEN [Raised |-> "TypeError"]
  ELSE S_OK([site \in DOMAIN config.Resources \cup DOMAIN config.LocalSE |->
               (IF site \in DOMAIN config.Resources THEN config.Resources[site] ELSE {})
               \cup (IF site \in DOMAIN config.LocalSE THEN config.LocalSE[site] ELSE {})])

\* getSitesForSE( storageElement, gridName = '' ), lines 81-97; what a call
\* raises goes through.
getSitesForSE(config, storageElement, gridName) ==
  LET result == getSiteSEMapping(config, <<gridName>>) IN
  IF HasKey(result, "Raised") THEN result
  ELSE IF ~result.OK THEN result
  ELSE S_OK({ site \in DOMAIN result.Value : storageElement \in result.Value[site] })

\* isSameSiteSE( se1, se2 ), lines 115-134
isSameSiteSE(config, se1, se2) ==
  IF se1 = se2 THEN S_OK(TRUE)
  ELSE LET r1 == getSitesForSE(config, se1, "") IN
    IF HasKey(r1, "Raised") THEN r1
    ELSE IF ~r1.OK THEN r1
    ELSE LET r2 == getSitesForSE(config, se2, "") IN
      IF HasKey(r2, "Raised") THEN r2
      ELSE IF ~r2.OK THEN r2
      ELSE S_OK(\E site \in r1.Value : site \in r2.Value)

getSitesForSECalled ==
  /\ pc = "idle"
  /\ \E se \in SENames :
       /\ input' = [keys |-> <<se>>, val |-> EmptyDict]
       /\ ret' = getSitesForSE(cs, se, "")
  /\ pc' = "done"
  /\ op' = "getSitesForSE"
  /\ UNCHANGED <<remote, local, opt, work, idx, successful, failed, trace,
                 remote0, local0, followed, hdfs_ctx, cs, country, mappedCountries>>

isSameSiteSECalled ==
  /\ pc = "idle"
  /\ \E se1 \in SENames, se2 \in SENames :
       /\ input' = [keys |-> <<se1, se2>>, val |-> EmptyDict]
       /\ ret' = isSameSiteSE(cs, se1, se2)
  /\ pc' = "done"
  /\ op' = "isSameSiteSE"
  /\ UNCHANGED <<remote, local, opt, work, idx, successful, failed, trace,
                 remote0, local0, followed, hdfs_ctx, cs, country, mappedCountries>>

\* The fileIDs the handler is called with, in pieces: ":9148" the port part,
\* "HDFS" the service name, "?=", "/" a slash at the front, "base" BASE_PATH,
\* the other pieces the path below BASE_PATH.
FileIDs ==
  { <<"p">>, <<"/", "/", "d", "a">>, <<"base", "d">>, <<"?=", "/", "p">>,
    <<"dips", ":9148", "HDFS", "?=", "d", "s">> }

\* __resolveFileID( fileID ), lines 113-138, with port the Port option: what
\* follows the port, the service name and '?=' is kept; the result is the path
\* below BASE_PATH, whether fileID began with BASE_PATH or was joined to it.
resolveFileID(port, fileID) ==
  LET After(s, t) ==
        IF \E i \in DOMAIN s : s[i] = t
          THEN SubSeq(s, 1 + CHOOSE i \in DOMAIN s :
                               s[i] = t /\ \A j \in 1..(i - 1) : s[j] # t, Len(s))
          ELSE s
      rest == After(After(After(fileID, port), "HDFS"), "?=")
      slashes == Cardinality({ i \in DOMAIN rest : \A j \in 1..i : rest[j] = "/" })
  IN IF port = "" THEN <<>>
     ELSE IF rest # <<>> /\ rest[1] = "base" THEN Tail(rest)
     ELSE SubSeq(rest, slashes + 1, Len(rest))

\* self.hdfs_ctx.exists( file_path ) of line 149 on the context ctx: without
\* the attribute an AttributeError; else the answer, or an exception.
ctxExists(ctx, fs, file_path) ==
  IF ~ctx.set THEN { [out |-> "AttributeError", val |-> FALSE] }
  ELSE { [out |-> "ok", val |-> file_path \in DOMAIN fs /\ Present(fs, file_path)],
         [out |-> "Exception", val |-> FALSE] }

\* export_exists( fileID ), lines 142-157: `except Exception' takes every
\* exception of the try block, logs, and the function ends without a return.
export_exists ==
  /\ pc = "idle"
  /\ \E fileID \in FileIDs, port \in {"", ":9148"} :
       LET file_path == resolveFileID(port, fileID) IN
       \E e \in ctxExists(hdfs_ctx, remote, file_path) :
         /\ input' = [keys |-> <<file_path>>, val |-> EmptyDict]
         /\ trace' = << [prim |-> "exists", path |-> file_path, out |-> e.out] >>
         /\ ret' = (IF e.out = "ok" THEN (IF e.val THEN S_OK(TRUE) ELSE S_OK(FALSE))
                    ELSE PyNone)
  /\ pc' = "done"
  /\ op' = "export_exists"
  /\ UNCHANGED <<remote, local, opt, work, idx, successful, failed,
                 remote0, local0, followed, hdfs_ctx, cs, country, mappedCountries>>

\* The state before a call: a configuration, and for the handler a remote file
\* system and the context its __init__ (lines 94-102) made or failed to make.
InitServices ==
  /\ cs \in Configs
  /\ remote \in InitRemotes
  /\ hdfs_ctx \in construct
  /\ cs # NoCS => (remote = RemoteFs(Dir, Dir, File(1), Absent) /\ hdfs_ctx.set)
  /\ local = LocalFs(File(0), Dir, Absent, Absent, Absent)
  /\ pc = "idle"
  /\ op = "none"
  /\ opt = NoOpt
  /\ input = NoInput
  /\ work = <<>>
  /\ idx = 0
  /\ successful = EmptyDict
  /\ failed = EmptyDict
  /\ ret = PyNone
  /\ trace = <<>>
  /\ remote0 = remote
  /\ local0 = local
  /\ followed = PyNone
  /\ country = ""
  /\ mappedCountries = <<>>

NextServices ==
  \/ getSEsForCountry
  \/ getSEsForCountryLoop
  \/ getSitesForSECalled
  \/ isSameSiteSECalled
  \/ export_exists

\* The loop of getSEsForCountry runs on while it can: a sequential program.
SpecServices == InitServices /\ [][NextServices]_vars /\ WF_vars(getSEsForCountryLoop)

-----------------------------------------------------------------------------
(* Properties *)

\* The fourteen batch operations of the plug-in.
PublicOps ==
  { "exists", "isFile", "isDirectory", "getFileSize", "getFileMetadata", "removeFile",
    "removeDirectory", "listDirectory", "getDirectoryMetadata", "getDirectorySize",
    "putFile", "getFile", "putDirectory", "getDirectory" }

\* A call of a batch operation has ended.
Ended == pc = "done" /\ op \in PublicOps
\* It ended with the { 'Failed', 'Successful' } envelope / with one S_ERROR /
\* with an exception that escaped it.
IsEnvelope == HasKey(ret, "OK") /\ ret.OK
IsFatal == HasKey(ret, "OK") /\ ~ret.OK
IsRaised == HasKey(ret, "Raised")
\* A helper returned S_OK( .. ) / S_ERROR( .. ).
ReturnedOk == HasKey(ret, "OK") /\ ret.OK
ReturnedError == HasKey(ret, "OK") /\ ~ret.OK
\* A direct call of __putSingleFile( src_file, dest_url ) has ended.
Uploaded == pc = "done" /\ op = "__putSingleFile"
UploadDest == work[1]
UploadSrc == input.val[work[1]]
\* No primitive of the call raised or came short.
NoFault == \A i \in DOMAIN trace : trace[i].out = "ok"
\* The i-th primitive call of the trace was prim on path with outcome out.
Called(i, prim, path, out) ==
  /\ i \in DOMAIN trace
  /\ trace[i] = [prim |-> prim, path |-> path, out |-> out]

\* C1: whenever a batch operation returns its envelope, the keys of Successful
\* and the keys of Failed together are the paths of the input, and no path is
\* a key of both; for every operation, state, outcome and batch size.
C1_EnvelopePartitionsInput ==
  (Ended /\ IsEnvelope) =>
    /\ DOMAIN ret.Value.Successful \cup DOMAIN ret.Value.Failed = Range(input.keys)
    /\ DOMAIN ret.Value.Successful \cap DOMAIN ret.Value.Failed = {}

\* C1, its case: a batch of two paths came back with one path in each dict.
C1_Witness ==
  /\ Ended /\ IsEnvelope
  /\ op = "removeFile"
  /\ Len(input.keys) > 1
  /\ DOMAIN ret.Value.Successful # {}
  /\ DOMAIN ret.Value.Failed # {}

\* C2: a call of a batch operation ends with the envelope or with one fatal
\* S_ERROR, never with an exception that escapes it.
C2_EnvelopeOrFatal == Ended => (IsEnvelope \/ IsFatal)

\* C3: a loop that has taken an item takes every item of the batch before the
\* call ends, whatever the items' outcomes (the fatal S_ERROR apart).
C3_AllItemsAttempted == (Ended /\ idx >= 1 /\ ~IsFatal) => idx = Len(work)

\* C4: a call that ends with the fatal S_ERROR has worked on no item: nothing
\* is in Successful or Failed, no primitive was called, no file system changed.
C4_FatalBeforeItems ==
  (Ended /\ IsFatal) =>
    /\ successful = EmptyDict
    /\ failed = EmptyDict
    /\ trace = <<>>
    /\ remote = remote0
    /\ local = local0

\* C5: in the envelope of removeFile, every path that was not on the remote
\* storage when the call began is in Successful with value True (stated for
\* the calls none of whose primitives failed).
C5_RemoveMissingSucceeds ==
  (Ended /\ op = "removeFile" /\ IsEnvelope /\ NoFault) =>
    \A url \in Range(input.keys) :
      ~Present(remote0, url) =>
        /\ url \in DOMAIN ret.Value.Successful
        /\ ret.Value.Successful[url] = TRUE

\* The envelope with url -> value in Successful and nothing in Failed.
OnlySuccessful(url, value) == S_OK([Failed |-> EmptyDict, Successful |-> Put(EmptyDict, url, value)])
\* The call was o on the one path p.
CallOfP(o) == Ended /\ op = o /\ input.keys = << <<"p">> >>

\* C6: with primitives that do not fail, putFile( { p : f } ) of a non-empty
\* regular file f to an absent p returns Successful = { p : size of f },
\* exists( p ) of the file then returns { p : True }, removeFile( p ) of it
\* returns { p : True }, and removeFile( p ) of the then absent p returns
\* { p : True } again, each with an empty Failed.
C6_PutExistsRemoveTwice ==
  /\ (/\ CallOfP("putFile") /\ NoFault
      /\ input.val[<<"p">>] = <<"f">>
      /\ local0[<<"f">>].kind = "file" /\ local0[<<"f">>].size > 0
      /\ ~Present(remote0, <<"p">>))
       => ret = OnlySuccessful(<<"p">>, local0[<<"f">>].size)
  /\ (CallOfP("exists") /\ NoFault /\ remote0[<<"p">>].kind = "file")
       => ret = OnlySuccessful(<<"p">>, TRUE)
  /\ (CallOfP("removeFile") /\ NoFault /\ remote0[<<"p">>].kind = "file")
       => ret = OnlySuccessful(<<"p">>, TRUE)
  /\ (CallOfP("removeFile") /\ NoFault /\ ~Present(remote0, <<"p">>))
       => ret = OnlySuccessful(<<"p">>, TRUE)

\* The copy returned, and the size then read from the destination is not the
\* size of the source: calls i, i + 1, i + 2 of the trace.
MismatchAt(i) ==
  /\ Called(i, "put", UploadDest, "short")
  /\ Called(i + 1, "isfile", UploadDest, "ok")
  /\ Called(i + 2, "lsl", UploadDest, "ok")
Mismatch == \E i \in DOMAIN trace : MismatchAt(i)

\* C7: when __putSingleFile ends after a copy whose size check found another
\* size, the destination is gone and the result is an S_ERROR.
C7_MismatchCleansUp ==
  (Uploaded /\ Mismatch) => (~Present(remote, UploadDest) /\ ReturnedError)

\* C8: after a size mismatch __putSingleFile calls the removal of the
\* destination before it ends, and its result is an S_ERROR: that of the
\* failed removal, or that of the mismatch after a removal that worked.
C8_CleanupBeforeReport ==
  (Uploaded /\ Mismatch) =>
    /\ \E i \in DOMAIN trace : MismatchAt(i) /\ i + 3 \in DOMAIN trace
    /\ ReturnedError
    /\ ret.Message[1] \in { "__putSingleFile: Failed to remove destination file",
                            "__putSingleFile: Source and destination file sizes do not match" }

\* The object found at the destination was removed before the i-th call.
RemovedBefore(i) == \E j \in 1..(i - 1) : Called(j, "rmr", UploadDest, "ok")
\* The call found the destination present and did not get it removed.
PreRemovalFailed ==
  /\ Called(1, "exists", UploadDest, "ok")
  /\ Present(remote0, UploadDest)
  /\ ~RemovedBefore(Len(trace) + 1)
\* The first fragments of the messages __removeSingleFile returns.
RemovalErrors ==
  { "__removeSingleFile: Failed to check if path is file or not",
    "__removeSingleFile: path is not a file, aborting the operation.",
    "__removeSingleFile: IOError occured while trying to remove a file",
    "__removeSingleFile: Exception occured while trying to remove a file" }

\* C9: __putSingleFile calls the copy only when the destination was absent at
\* its start or after it has removed what was there; when that removal fails
\* it calls no copy and returns the removal's S_ERROR.
C9_DeleteThenCopy ==
  Uploaded =>
    /\ \A i \in DOMAIN trace :
         trace[i].prim = "put" => (~Present(remote0, UploadDest) \/ RemovedBefore(i))
    /\ PreRemovalFailed =>
         /\ \A i \in DOMAIN trace : trace[i].prim # "put"
         /\ ReturnedError
         /\ ret.Message[1] \in RemovalErrors

\* C9, its case: a file was at the destination, it was removed, the copy was
\* made after that and the call returned the size.
C9_Witness ==
  /\ Uploaded
  /\ remote0[UploadDest].kind = "file"
  /\ \E i \in DOMAIN trace : Called(i, "put", UploadDest, "ok") /\ RemovedBefore(i)
  /\ ReturnedOk
  /\ remote[UploadDest] = local0[UploadSrc]

\* The source of the upload is missing, no regular file, or empty.
BadSource == local0[UploadSrc].kind # "file" \/ local0[UploadSrc].size = 0

Downloading == op = "getFile" /\ opt.localPath # NoSrc
\* Where getFile puts the copy of url: '%s/%s' % ( localPath, fileName ).
DownloadDest(url) == Append(opt.localPath, Basename(url))
\* The texts of the sizes a mismatch message may name next to remoteSize.
OtherSizes(n) == { ToString(m) : m \in Sizes \ {n} }

\* C11: in getFile, once hdfs.cp has returned for a url, either the local copy
\* has the size read from the storage before the copy and the url is in
\* successful with that size, or no file is left at the destination and the
\* url is in failed with the message that names the remote and the local size.
C11_DownloadVerified ==
  Downloading =>
    \A url \in Range(input.keys) :
      LET n == remote0[url].size IN
      /\ (\E i \in DOMAIN trace : Called(i, "cp", url, "ok")) =>
           /\ url \in DOMAIN successful /\ url \notin DOMAIN failed
           /\ successful[url] = n
           /\ LNode(local, DownloadDest(url)) = File(n)
      /\ (\E i \in DOMAIN trace : Called(i, "cp", url, "short")) =>
           /\ url \in DOMAIN failed /\ url \notin DOMAIN successful
           /\ ~osPathExists(local, DownloadDest(url))
           /\ failed[url][1] = "__getSingleFile: File sizes don't match"
           /\ failed[url][2] = ToString(n)
           /\ failed[url][3] \in OtherSizes(n)

\* C11, its case: the copy of p came short, the call has ended, p is in Failed
\* and nothing is at the destination.
C11_Witness ==
  /\ Ended /\ IsEnvelope /\ Downloading
  /\ \E i \in DOMAIN trace : Called(i, "cp", <<"p">>, "short")
  /\ <<"p">> \in DOMAIN ret.Value.Failed
  /\ ~osPathExists(local, DownloadDest(<<"p">>))

\* The download of url failed at the size of the remote file.
SizeFailed(url) ==
  /\ url \in DOMAIN failed
  /\ failed[url][1] = "__getSingleFile: Error while determinig file size"

\* C12: in getFile, when the size of the remote file cannot be determined, what
\* was at the local destination before the call is still there, and hdfs.cp
\* was not called for the url.
C12_SizeBeforeLocalRemoval ==
  Downloading =>
    \A url \in Range(input.keys) :
      SizeFailed(url) =>
        /\ LNode(local, DownloadDest(url)) = LNode(local0, DownloadDest(url))
        /\ \A i \in DOMAIN trace : ~(trace[i].prim = "cp" /\ trace[i].path = url)

\* A direct call of __getSingleFile has ended, made on the S_OK that
\* __putSingleFile had returned for the same remote path.
RoundTrip ==
  /\ pc = "done" /\ op = "__getSingleFile"
  /\ HasKey(followed, "ret") /\ HasKey(followed.ret, "OK") /\ followed.ret.OK

\* C13: when __putSingleFile( f, p ) has returned S_OK( n ) and the
\* __getSingleFile( p, d ) that follows it returns S_OK too, then the file at d
\* has n bytes, n is the size of f, and the download returns n.
C13_UploadDownloadRoundTrip ==
  (RoundTrip /\ ReturnedOk) =>
    /\ ret.Value = followed.ret.Value
    /\ ret.Value = LNode(local, followed.src_file).size
    /\ LNode(local, opt.localPath) = File(ret.Value)

\* C13, its case: f was uploaded, the download that followed succeeded and a
\* copy of as many bytes as f has is at the destination.
C13_Witness ==
  /\ RoundTrip /\ ReturnedOk
  /\ followed.src_file = <<"f">>
  /\ LNode(local, opt.localPath) = LNode(local, <<"f">>)
  /\ ret.Value > 0

\* The entries directly in directory dir of fs, and those of one kind.
Children(fs, dir) == { q \in DOMAIN fs : Len(q) = Len(dir) + 1 /\ IsPrefix(dir, q) /\ Present(fs, q) }
ChildrenOfKind(fs, dir, kind) == { q \in Children(fs, dir) : fs[q].kind = kind }
\* The sum of the sizes of the entries S of fs.
RECURSIVE TotalSize(_, _)
TotalSize(fs, S) ==
  IF S = {} THEN 0
  ELSE LET q == CHOOSE x \in S : TRUE IN fs[q].size + TotalSize(fs, S \ {q})
\* The call was removeDirectory( url, recursive ) on the one path url.
RemoveDirectoryOf(url, recursive) ==
  /\ Ended /\ op = "removeDirectory"
  /\ opt.recursive = recursive
  /\ input.keys = <<url>>

\* C14: removeDirectory( d ) without recursion, on a directory that holds
\* files and no directory, with no primitive failing, removes the files and
\* the directory and returns d in Successful with the number of the files as
\* FilesRemoved and the sum of their sizes as SizeRemoved.
C14_FlatRemovalOfFiles ==
  (/\ RemoveDirectoryOf(<<"d">>, FALSE) /\ NoFault
   /\ remote0[<<"d">>].kind = "directory"
   /\ ChildrenOfKind(remote0, <<"d">>, "file") # {}
   /\ ChildrenOfKind(remote0, <<"d">>, "directory") = {})
    => /\ ret = OnlySuccessful(<<"d">>,
                  [FilesRemoved |-> Cardinality(ChildrenOfKind(remote0, <<"d">>, "file")),
                   SizeRemoved |-> TotalSize(remote0, ChildrenOfKind(remote0, <<"d">>, "file"))])
       /\ ~Present(remote, <<"d">>)

\* C15: removeDirectory( d ) without recursion, on a directory that holds a
\* directory, with no primitive failing, leaves d on the storage and returns
\* the envelope with d in Failed and not in Successful.
C15_FlatRemovalKeepsParent ==
  (/\ RemoveDirectoryOf(<<"d">>, FALSE) /\ NoFault
   /\ remote0[<<"d">>].kind = "directory"
   /\ ChildrenOfKind(remote0, <<"d">>, "directory") # {})
    => /\ Present(remote, <<"d">>)
       /\ IsEnvelope
       /\ <<"d">> \in DOMAIN ret.Value.Failed
       /\ <<"d">> \notin DOMAIN ret.Value.Successful

\* The files in the tree below directory dir of fs.
FilesBelow(fs, dir) == { q \in DOMAIN fs : q # dir /\ IsPrefix(dir, q) /\ fs[q].kind = "file" }
\* The statistics of the removal of the tree below dir, taken before it.
RemovalStats(fs, dir) ==
  [FilesRemoved |-> Cardinality(FilesBelow(fs, dir)),
   SizeRemoved |-> TotalSize(fs, FilesBelow(fs, dir))]
\* The positions of the trace at which hdfs.rmr was called.
RmrCalls == { i \in DOMAIN trace : trace[i].prim = "rmr" }

\* C16: removeDirectory( d, recursive = True ) on a directory, when no
\* primitive but the removal itself fails, calls hdfs.rmr exactly once, on d
\* and after the listings, and returns the statistics taken before it: under d
\* in Successful when hdfs.rmr worked, under d in Failed when it did not.
C16_RecursiveRemoval ==
  (/\ RemoveDirectoryOf(<<"d">>, TRUE)
   /\ remote0[<<"d">>].kind = "directory"
   /\ \A i \in DOMAIN trace : trace[i].prim # "rmr" => trace[i].out = "ok")
    => /\ RmrCalls = {Len(trace)}
       /\ trace[Len(trace)].path = <<"d">>
       /\ IsEnvelope
       /\ IF trace[Len(trace)].out = "ok"
            THEN /\ ret.Value.Failed = EmptyDict
                 /\ ret.Value.Successful = Put(EmptyDict, <<"d">>, RemovalStats(remote0, <<"d">>))
            ELSE /\ ret.Value.Successful = EmptyDict
                 /\ ret.Value.Failed = Put(EmptyDict, <<"d">>, RemovalStats(remote0, <<"d">>))

\* The call was putDirectory( { dest : src } ).
PutDirectoryOf(dest, src) ==
  /\ Ended /\ op = "putDirectory"
  /\ input.keys = <<dest>>
  /\ input.val[dest] = src
\* The copies hdfs.put made in this call.
PutsDone == { i \in DOMAIN trace : trace[i].prim = "put" /\ trace[i].out = "ok" }

\* C17: putDirectory( { d : l } ) of a local directory whose tree holds files
\* returns the envelope, and d is in Successful (AllPut was true) only if a
\* copy was made for every file of the tree; otherwise d is in Failed.
C17_AllPutOnlyIfAllUploaded ==
  (/\ PutDirectoryOf(<<"d">>, <<"l">>)
   /\ osPathIsdir(local0, <<"l">>)
   /\ FilesBelow(local0, <<"l">>) # {})
    => /\ IsEnvelope
       /\ IF Cardinality(PutsDone) >= Cardinality(FilesBelow(local0, <<"l">>))
            THEN <<"d">> \in DOMAIN ret.Value.Successful
            ELSE <<"d">> \in DOMAIN ret.Value.Failed

\* C18: putDirectory( { d : l } ) of a local directory whose tree holds files,
\* with no primitive failing and whatever the order of the listings, returns d
\* in Successful with Files the number of the files of the tree and Size the
\* sum of their sizes.
C18_PutDirectoryStatistics ==
  (/\ PutDirectoryOf(<<"d">>, <<"l">>) /\ NoFault
   /\ osPathIsdir(local0, <<"l">>)
   /\ FilesBelow(local0, <<"l">>) # {})
    => ret = OnlySuccessful(<<"d">>,
               [Files |-> Cardinality(FilesBelow(local0, <<"l">>)),
                Size |-> TotalSize(local0, FilesBelow(local0, <<"l">>))])


\* The call was getDirectory( url, localPath ) on the one path url.
GetDirectoryOf(url, localPath) ==
  /\ Ended /\ op = "getDirectory"
  /\ opt.localPath = localPath
  /\ input.keys = <<url>>
\* The files of the call's remote directory that hdfs.cp copied whole.
CopiedWhole(dir) ==
  { q \in FilesBelow(remote0, dir) : \E i \in DOMAIN trace : Called(i, "cp", q, "ok") }
\* The files of the call's remote directory the call made a remote call on.
Attempted(dir) ==
  { q \in FilesBelow(remote0, dir) : \E i \in DOMAIN trace : trace[i].path = q }

\* C19: getDirectory( d, l ) on a remote directory that holds files, when the
\* destination l/d is a local directory already, returns the envelope, makes
\* the single-file download of every file of the recursive listing whether or
\* not an earlier one failed, and has d in Successful exactly when every file
\* was copied whole (in Failed otherwise), Files being the number of the
\* files copied.
C19_FileByFileDownload ==
  (/\ GetDirectoryOf(<<"d">>, <<"l">>)
   /\ remote0[<<"d">>].kind = "directory"
   /\ FilesBelow(remote0, <<"d">>) # {}
   /\ osPathIsdir(local0, <<"l", "d">>))
    => /\ IsEnvelope
       /\ Attempted(<<"d">>) = FilesBelow(remote0, <<"d">>)
       /\ IF CopiedWhole(<<"d">>) = FilesBelow(remote0, <<"d">>)
            THEN /\ <<"d">> \in DOMAIN ret.Value.Successful
                 /\ ret.Value.Successful[<<"d">>].Files = Cardinality(FilesBelow(remote0, <<"d">>))
            ELSE <<"d">> \in DOMAIN ret.Value.Failed

\* The bulk copies hdfs.get was asked for in this call.
BulkCopies == { i \in DOMAIN trace : trace[i].prim = "get" }

\* C20: getDirectory( d, l ) on a remote directory that holds files, when no
\* l/d exists locally and no primitive fails, makes exactly one hdfs.get and
\* no hdfs.cp, and returns d in Successful with Files the number of the files
\* of the recursive listing and Size the sum of their sizes.
C20_BulkCopy ==
  (/\ GetDirectoryOf(<<"d">>, <<"l">>) /\ NoFault
   /\ remote0[<<"d">>].kind = "directory"
   /\ FilesBelow(remote0, <<"d">>) # {}
   /\ osPathIsdir(local0, <<"l">>)
   /\ ~osPathExists(local0, <<"l", "d">>))
    => /\ Cardinality(BulkCopies) = 1
       /\ \A i \in DOMAIN trace : trace[i].prim # "cp"
       /\ ret = OnlySuccessful(<<"d">>,
                  [Files |-> Cardinality(FilesBelow(remote0, <<"d">>)),
                   Size |-> TotalSize(remote0, FilesBelow(remote0, <<"d">>))])


\* The call was operation o on the one path url.
CallOn(o, url) ==
  /\ Ended /\ op = o
  /\ input.keys = <<url>>

\* C21: getDirectorySize( d ) on a directory, with no primitive failing,
\* returns d in Successful with Files the number of the files the directory
\* lists, Size the sum of their sizes and SubDirs the number of the
\* directories it lists.
C21_DirectorySizeFoldsListing ==
  (/\ CallOn("getDirectorySize", <<"d">>) /\ NoFault
   /\ remote0[<<"d">>].kind = "directory"
   /\ Children(remote0, <<"d">>) # {})
    => ret = OnlySuccessful(<<"d">>,
               [Files |-> Cardinality(ChildrenOfKind(remote0, <<"d">>, "file")),
                Size |-> TotalSize(remote0, ChildrenOfKind(remote0, <<"d">>, "file")),
                SubDirs |-> Cardinality(ChildrenOfKind(remote0, <<"d">>, "directory"))])

\* C22: listDirectory( d ) on a directory that holds something, with no
\* primitive failing, returns the envelope with d in Successful, the files
\* of d as the keys of Files and the directories of d as the keys of SubDirs.
C22_ListingPartitionedByKind ==
  (/\ CallOn("listDirectory", <<"d">>) /\ NoFault
   /\ remote0[<<"d">>].kind = "directory"
   /\ Children(remote0, <<"d">>) # {})
    => /\ IsEnvelope
       /\ ret.Value.Failed = EmptyDict
       /\ DOMAIN ret.Value.Successful = {<<"d">>}
       /\ DOMAIN ret.Value.Successful[<<"d">>].Files = ChildrenOfKind(remote0, <<"d">>, "file")
       /\ DOMAIN ret.Value.Successful[<<"d">>].SubDirs = ChildrenOfKind(remote0, <<"d">>, "directory")


\* The operations of lines 600-626.
UnsupportedOps == { "prestageFile", "prestageFileStatus", "pinFile", "releaseFile" }

\* C23: a call of prestageFile, prestageFileStatus, pinFile or releaseFile,
\* on any arguments and in any state of the file systems, ends with S_ERROR
\* of the operation's own 'Operation not supported.' message, never with the
\* envelope, has called no primitive and has changed neither file system.
C23_UnsupportedOperations ==
  (pc = "done" /\ op \in UnsupportedOps) =>
    /\ ret = [OK |-> FALSE, Message |-> <<op, "Operation not supported.">>]
    /\ ~IsEnvelope
    /\ trace = <<>>
    /\ remote = remote0 /\ local = local0

\* C23, its case: releaseFile was called on a batch of paths after an upload
\* had changed the remote file system.
C23_Witness ==
  /\ pc = "done" /\ op = "releaseFile"
  /\ Len(input.keys) = MaxBatch
  /\ remote \notin InitRemotes
  /\ IsFatal


\* The storage answered every call of the trace as it answers for the state
\* of its tree: no failure other than that of a missing path.
OnlyMissing == \A i \in DOMAIN trace : trace[i].out \in {"ok", "NoSuchFile"}
\* The texts by which a message says that the path is not there.
MissingTexts ==
  { "__isSingleFile: File does not exist.", "__isSingleDirectory: File does not exist.",
    "No such file" }
SaysMissing(message) == \E i \in DOMAIN message : message[i] \in MissingTexts

\* C24: isFile( url ) and isDirectory( url ) on a path that is not on the
\* storage, the storage failing in no other way, return the envelope with
\* url in Failed under a message that says so, and not in Successful.
C24_MissingPathIsFailed ==
  (/\ Ended /\ op \in {"isFile", "isDirectory"}
   /\ OnlyMissing
   /\ Len(input.keys) = 1
   /\ ~Present(remote0, input.keys[1]))
    => /\ IsEnvelope
       /\ input.keys[1] \notin DOMAIN ret.Value.Successful
       /\ input.keys[1] \in DOMAIN ret.Value.Failed
       /\ SaysMissing(ret.Value.Failed[input.keys[1]])


\* The calls of the trace that failed.
FailedCalls == { i \in DOMAIN trace : trace[i].out # "ok" }

\* C25: a call of exists in which hdfs.path.exists raised for some item ends
\* with the envelope; every item the primitive raised for is in Failed under
\* the message of __singleExists, and every other item is in Successful with
\* what the storage held.
C25_ExistsFailureIsFailed ==
  (Ended /\ op = "exists" /\ FailedCalls # {}) =>
    /\ IsEnvelope
    /\ \A i \in DOMAIN trace :
         IF i \in FailedCalls
           THEN /\ trace[i].path \in DOMAIN ret.Value.Failed
                /\ ret.Value.Failed[trace[i].path] =
                     <<"__singleExists: error while checking for existence">> \o ExcText(trace[i].out)
           ELSE /\ trace[i].path \in DOMAIN ret.Value.Successful
                /\ ret.Value.Successful[trace[i].path] = Present(remote0, trace[i].path)
    /\ { trace[i].path : i \in DOMAIN trace } = Range(input.keys)


\* C26: in the envelope of putDirectory and of getDirectory, the value a
\* directory has in Failed is an error message: it is no record of the counts
\* Files and Size.
C26_FailedValuesAreMessages ==
  (Ended /\ op \in {"putDirectory", "getDirectory"} /\ IsEnvelope) =>
    \A url \in DOMAIN ret.Value.Failed : ~HasKey(ret.Value.Failed[url], "Files")


\* The instance has been torn down.
Deleted == pc = "deleted"

\* C27: hdfs.hdfs( .. ) is called once, at construction, and never again; no
\* call of an operation closes the context; a context that was acquired has
\* been closed exactly once when the instance is gone, and not before; a step
\* changes the context only by tearing the instance down, and no step follows
\* the teardown.
C27_ContextLifecycle ==
  /\ [](/\ hdfs_ctx.made = (IF hdfs_ctx.set THEN 1 ELSE 0)
        /\ hdfs_ctx.closed = (IF Deleted /\ hdfs_ctx.set THEN 1 ELSE 0))
  /\ [][/\ ~Deleted
        /\ (hdfs_ctx' # hdfs_ctx => (pc = "idle" /\ Deleted'))]_vars

\* C27, its case: an instance that had acquired its context was torn down
\* after calls that changed the remote storage, and the context is closed.
C27_Witness ==
  /\ Deleted
  /\ hdfs_ctx.set /\ hdfs_ctx.closed = 1
  /\ remote \notin InitRemotes


\* The operations whose loop body calls the storage on the item's own path.
FileOps ==
  { "exists", "isFile", "isDirectory", "getFileSize", "getFileMetadata", "removeFile", "getFile" }
\* The place of url in the collection the loop iterates.
Pos(url) == CHOOSE k \in 1..Len(work) : work[k] = url
\* The items the loop has taken.
Taken == { work[k] : k \in 1..idx }

CopyFailedAt(i) ==
  \/ Called(i, "put", UploadDest, "IOError")
  \/ Called(i, "put", UploadDest, "IOErrorPartial")

\* C29: when hdfs.put raised an IOError in __putSingleFile, whether it left a
\* part of the file at the destination or nothing, the call goes on to the
\* removal of the destination and ends with an S_ERROR (stated for the calls
\* in which nothing else fails).
C29_CopyFailureCleansUp ==
  Uploaded =>
    \A i \in DOMAIN trace :
      (CopyFailedAt(i) /\ FailedCalls = {i}) => (i + 1 \in DOMAIN trace /\ ReturnedError)


\* C30: getFileSize( url ) on a path that is no file makes the one call of
\* the isFile check and no hdfs.lsl, and returns the envelope with url in
\* Failed: under 'Path is not a file.' when the check answered, under the
\* error of the check when the check failed.
C30_SizeOfNonFile ==
  (/\ Ended /\ op = "getFileSize"
   /\ Len(input.keys) = 1
   /\ remote0[input.keys[1]].kind # "file")
    => /\ Len(trace) = 1
       /\ trace[1].prim = "isfile"
       /\ IsEnvelope
       /\ DOMAIN ret.Value.Failed = {input.keys[1]}
       /\ (trace[1].out = "ok" =>
             ret.Value.Failed[input.keys[1]] = <<"__getSingleFileSize: Path is not a file.">>)


\* The call ended with the envelope, url in Failed and nothing in Successful.
OnlyFailed(url) ==
  /\ IsEnvelope
  /\ DOMAIN ret.Value.Failed = {url}
  /\ ret.Value.Successful = EmptyDict

\* C31: getFileMetadata( url ) on a directory and getDirectoryMetadata( url )
\* on a file, once the loop has taken url and with no primitive failing,
\* return the envelope with url in Failed and nothing in Successful.
C31_WrongKindIsFailed ==
  (/\ Ended /\ NoFault
   /\ Len(input.keys) = 1 /\ idx = 1
   /\ \/ op = "getFileMetadata" /\ remote0[input.keys[1]].kind = "directory"
      \/ op = "getDirectoryMetadata" /\ remote0[input.keys[1]].kind = "file")
    => OnlyFailed(input.keys[1])


\* C32: getDirectory( url ) on a path that is no directory, or whose kind
\* check failed, makes the one call of the check and no other, changes neither
\* file system, and returns the envelope with url in Failed under Files 0 and
\* Size 0.
C32_GetDirectoryChecksKind ==
  (/\ Ended /\ op = "getDirectory"
   /\ Len(input.keys) = 1 /\ idx = 1
   /\ \/ remote0[input.keys[1]].kind # "directory"
      \/ trace[1].out # "ok")
    => /\ Len(trace) = 1
       /\ local = local0 /\ remote = remote0
       /\ OnlyFailed(input.keys[1])
       /\ ret.Value.Failed[input.keys[1]] = [Files |-> 0, Size |-> 0]


\* C33: removeDirectory( url ), recursive or not, on a path that is no
\* directory, or whose kind check failed, calls no hdfs.rmr, leaves the
\* remote storage as it was and returns the envelope with url in Failed; and
\* a recursive removal whose listing for the statistics failed calls no
\* hdfs.rmr either.
C33_RemoveDirectoryChecksKind ==
  (/\ Ended /\ op = "removeDirectory"
   /\ Len(input.keys) = 1 /\ idx = 1)
    => /\ (\/ remote0[input.keys[1]].kind # "directory"
           \/ trace[1].out # "ok")
            => /\ RmrCalls = {}
               /\ remote = remote0
               /\ OnlyFailed(input.keys[1])
       /\ (opt.recursive /\ Len(trace) >= 2 /\ trace[2].out # "ok") => RmrCalls = {}


\* The calls of hdfs.rmr that returned.
RmrDone == { i \in RmrCalls : trace[i].out = "ok" }

C35_RemoveFileRemovesFilesOnly ==
  (op = "removeFile" /\ pc \in {"loop", "done"}) =>
    /\ \A i \in RmrCalls :
         /\ Called(i - 1, "isfile", trace[i].path, "ok")
         /\ remote0[trace[i].path].kind = "file"
    /\ \A q \in RPaths : remote0[q].kind = "directory" => remote[q] = remote0[q]
    /\ (Ended /\ Len(input.keys) = 1 /\ remote0[input.keys[1]].kind = "directory") =>
         /\ remote = remote0
         /\ OnlyFailed(input.keys[1])

\* C35, its case: removeFile( d ) has ended on a directory that holds a file.
C35_Witness ==
  /\ Ended /\ op = "removeFile"
  /\ input.keys = << <<"d">> >>
  /\ remote0[<<"d">>].kind = "directory"
  /\ remote[<<"d", "a">>].kind = "file"
  /\ Called(1, "isfile", <<"d">>, "ok")
  /\ <<"d">> \in DOMAIN ret.Value.Failed


\* A direct call of __getSingleFile( src_url, dest_file ) has returned.
Downloaded == pc = "done" /\ op = "__getSingleFile" /\ HasKey(ret, "OK")

\* C36: when __getSingleFile( src_url, dest_file ) has returned, with S_OK or
\* with S_ERROR, nothing is at dest_file or a file of the size of src_url is.
C36_NoPartialLocalCopy ==
  Downloaded =>
    \/ ~osPathExists(local, opt.localPath)
    \/ /\ osPathIsfile(local, opt.localPath)
       /\ remote[work[1]].kind = "file"
       /\ local[opt.localPath].size = remote[work[1]].size


\* The i-th primitive call of the upload wrote to the destination.
Wrote(i) == trace[i].prim = "put" /\ trace[i].out \in {"ok", "short", "IOErrorPartial"}
\* The upload removed what was at the destination before any copy.
PreRemoved ==
  \E i \in DOMAIN trace :
    /\ Called(i, "rmr", UploadDest, "ok")
    /\ \A j \in 1..(i - 1) : trace[j].prim # "put"
\* What was at the destination before the upload is still there: the call
\* wrote nothing and the destination is as it was.
PreviousKept ==
  /\ remote[UploadDest] = remote0[UploadDest]
  /\ \A i \in DOMAIN trace : ~Wrote(i)

\* C37: __putSingleFile onto an existing remote path: once the removal of
\* lines 343-350 has succeeded, what is at the destination afterwards was
\* written by the copy of this call and the previous object is not there again;
\* after an upload that did not return S_OK the previous object is still there
\* only if no copy was called and nothing was removed: the source was refused,
\* the existence check failed, or the removal failed.
C37_UploadNotAtomic ==
  (Uploaded /\ Present(remote0, UploadDest)) =>
    /\ PreRemoved => ~PreviousKept
    /\ (~ReturnedOk /\ PreviousKept) =>
         /\ \A i \in DOMAIN trace : trace[i].prim # "put"
         /\ ~RemovedBefore(Len(trace) + 1)
         /\ \/ trace = <<>>
            \/ trace = << [prim |-> "exists", path |-> UploadDest, out |-> "Exception"] >>
            \/ PreRemovalFailed

\* C37, its case: a file was at the destination, the upload removed it, the
\* copy raised, the upload did not return S_OK and the destination is empty.
C37_Witness ==
  /\ Uploaded
  /\ remote0[UploadDest].kind = "file"
  /\ PreRemoved
  /\ \E i \in DOMAIN trace : trace[i].prim = "put" /\ trace[i].out = "IOError"
  /\ ~ReturnedOk
  /\ ~Present(remote, UploadDest)


\* A call of getSEsForCountry( country ) has returned; the country it was
\* called with.
CountryDone == pc = "done" /\ op = "getSEsForCountry"
FirstCountry == input.keys[1]
\* The country n steps of AssignedTo away from c.
RECURSIVE Follow(_, _)
Follow(c, n) == IF n = 0 THEN c ELSE getValue(cs, Follow(c, n - 1), Follow(c, n - 1))
\* The chain from c comes to a country that is mapped to itself or not mapped.
Settles(c) == \E n \in 0..MaxCountries : Follow(c, n + 1) = Follow(c, n)
\* The chain from c comes back to a country it has left.
Cycles(c) ==
  \E m \in 0..MaxCountries, n \in 1..MaxCountries :
    Follow(c, m + n) = Follow(c, m) /\ Follow(c, m + 1) # Follow(c, m)
CircularError == ~ret.OK /\ ret.Message[1] = "Circular mapping detected for"

\* C38: getSEsForCountry returns for every configuration of AssignedTo: the
\* loop never sees a country twice, so it takes no more turns than there are
\* countries; it ends at the country the chain settles at, whose AssociatedSEs
\* it looks up, or with 'Circular mapping detected', and with that error only
\* when the chain from the given country comes back to a country it has left.
C38_CountryChainTerminates ==
  /\ []((op = "getSEsForCountry") =>
          /\ \A i, j \in DOMAIN mappedCountries :
               mappedCountries[i] = mappedCountries[j] => i = j
          /\ \A i \in DOMAIN mappedCountries : mappedCountries[i] = Follow(FirstCountry, i - 1)
          /\ country = mappedCountries[Len(mappedCountries)])
  /\ [](CountryDone =>
          /\ CircularError <=> Cycles(FirstCountry)
          /\ ~CircularError =>
               /\ Settles(FirstCountry)
               /\ getValue(cs, country, country) = country
               /\ ret = (IF country \in DOMAIN cs.AssociatedSEs
                           THEN S_OK({"CERN-RAW", country})
                           ELSE S_ERROR(<<"Failed to obtain AssociatedSEs for", country>>)))
  /\ ((op = "getSEsForCountry" /\ pc = "while") ~> CountryDone)

\* C38, its case: a chain of three countries that comes back to its second
\* one, and the call has returned the error.
C38_Witness ==
  /\ CountryDone
  /\ Len(mappedCountries) = 3
  /\ Follow(FirstCountry, 3) = Follow(FirstCountry, 1)
  /\ CircularError


\* The sites whose list of SEs in the site-to-SE mapping holds se.
SitesOf(se) ==
  LET mapping == getSiteSEMapping(cs, <<>>).Value IN
  { site \in DOMAIN mapping : se \in mapping[site] }

\* C39: isSameSiteSE( se1, se2 ) returns S_OK( True ) when the two names are
\* equal or a site of the site-to-SE mapping lists both, S_OK( False ) when
\* not, and the same for ( se2, se1 ); getSitesForSE( se ) returns the sites
\* whose list of SEs in getSiteSEMapping holds se.
C39_SameSiteAndSitesForSE ==
  /\ (pc = "done" /\ op = "isSameSiteSE") =>
       LET se1 == input.keys[1]
           se2 == input.keys[2]
       IN /\ ret = S_OK(se1 = se2 \/ SitesOf(se1) \cap SitesOf(se2) # {})
          /\ ret = isSameSiteSE(cs, se2, se1)
  /\ (pc = "done" /\ op = "getSitesForSE") =>
       /\ HasKey(ret, "OK")
       /\ ret.OK
       /\ ret.Value = SitesOf(input.keys[1])

\* C40: export_exists( fileID ) returns a result structure: S_OK( True ) or
\* S_OK( False ) as the resolved path is or is not on the remote storage, and
\* an S_ERROR when the existence check raised or the handler has no context.
C40_ExportExistsReturnsResult ==
  (pc = "done" /\ op = "export_exists") =>
    /\ HasKey(ret, "OK")
    /\ trace[1].out = "ok" =>
         ret = S_OK(input.keys[1] \in DOMAIN remote /\ Present(remote, input.keys[1]))
    /\ (trace[1].out # "ok" \/ ~hdfs_ctx.set) => ~ret.OK

====
